---- MODULE Spec2Model ----
(***************************************************************************)
(* State-machine model of the resource layer of the 3D digital twin        *)
(* front-end:                                                              *)
(*   - ResourceManagerService (reference-counted registry with a deferred  *)
(*     disposal queue), frontend/src/services/statusUpdateService.ts       *)
(*     lines 328-730;                                                      *)
(*   - ProgressiveLoaderService (priority-ordered, concurrency-bounded     *)
(*     chunk activation), frontend/src/services/progressiveLoader.ts;      *)
(*   - RenderOptimizerService (adaptive quality, levels of detail) and     *)
(*     PollingService, unnamed/part_003;                                   *)
(*   - StatusUpdateService, frontend/src/services/statusUpdateService.ts   *)
(*     lines 21-290;                                                       *)
(*   - ErrorRecoveryService, unnamed/part_006.                             *)
(*                                                                         *)
(* JavaScript runs one task at a time: every public method is one atomic   *)
(* action.  An async function is cut at its awaits and at the user         *)
(* callbacks it invokes, which are the only points where other code can    *)
(* observe the state.                                                      *)
(***************************************************************************)
EXTENDS Integers, Sequences, FiniteSets, TLC

\* ------------------------------------------------------------------------
\* Bounds of the model
\* ------------------------------------------------------------------------
\* caller-supplied resource ids are <<"usr", 1>> .. <<"usr", MaxUserIds>>
MaxUserIds == 1
\* ids produced by generateResourceId are <<"gen", 1>> .. <<"gen", MaxGenIds>>
MaxGenIds == 1
\* addReference is not called on a resource that already holds MaxRefs
MaxRefs == 2
\* Date.now() ranges over 0 .. MaxTime
MaxTime == 1

\* ------------------------------------------------------------------------
\* Registry state (ResourceManagerService)
\* ------------------------------------------------------------------------
VARIABLES
    resources,          \* Map<string, ResourceInfo>: id -> [refCount, createdAt, lastUsed]
    resourceObjects,    \* Map<string, any>: id -> the registered object
    disposalQueue,      \* Set<string>
    autoCleanupInterval, \* the interval handle's options, or NoTimer (null)
    isAutoCleanupEnabled,
    now,                \* Date.now()
    genCount,           \* how many ids generateResourceId has produced
    last,               \* the last registry call and what it returned
    disposed,           \* ids for which disposeResource has returned true
    liveIntervals       \* the setInterval timers of the service that are not cleared

regVars == <<resources, resourceObjects, disposalQueue, autoCleanupInterval,
             isAutoCleanupEnabled, now, genCount, last, disposed, liveIntervals>>

\* ------------------------------------------------------------------------
\* Scheduler state (ProgressiveLoaderService)
\* ------------------------------------------------------------------------
VARIABLES
    options,        \* ProgressiveLoadingOptions: maxConcurrentChunks, chunkSizeLimit, priorityDelayMs
    chunks,         \* every LoadingChunk object created so far: id -> chunk
    loadingQueue,   \* LoadingChunk[]: the ids of the queued chunks, in order
    activeLoads,    \* Set<string>
    loadedChunks,   \* Map<string, LoadingChunk>: its keys
    delayed,        \* chunks whose loadChunk is suspended on its stagger timer
    inCallback,     \* the chunk whose onChunkLoaded callback is running, if any (a set)
    pc,             \* where processLoadingQueue stands
    totalChunks,    \* local of processLoadingQueue
    loadedCount,    \* local of processLoadingQueue
    visible,        \* mesh.visible of every mesh of the catalog
    loadCount,      \* how many loads have been started
    startOrder,     \* the chunks in the order loadChunk was called on them
    modelResult,    \* local of loadModelProgressively: the meshes of the scene, as traversed,
                    \* from line 83 until the chunks are queued
    camera          \* the camera (and scene) given to initialize, or NoCamera (null)

loaderVars == <<options, chunks, loadingQueue, activeLoads, loadedChunks, delayed,
                inCallback, pc, totalChunks, loadedCount, visible, loadCount,
                startOrder, modelResult, camera>>

\* ------------------------------------------------------------------------
\* Quality controller state (RenderOptimizerService, PerformanceMonitorService)
\* ------------------------------------------------------------------------
VARIABLES
    renderer,           \* NoRenderer (null), or the renderer's pixelRatio and shadowMap.enabled
    devicePixelRatio,   \* window.devicePixelRatio
    settings,           \* OptimizationSettings: targetFPS, adaptiveQuality
    metrics,            \* PerformanceMonitorService.metrics: the fps of each sample
    qualityLog          \* one entry per adaptiveOptimization call: what it read and found

optVars == <<renderer, devicePixelRatio, settings, metrics, qualityLog>>

\* ------------------------------------------------------------------------
\* Level-of-detail state of the controller (RenderOptimizerService)
\* ------------------------------------------------------------------------
VARIABLES
    lodObjects,         \* Map<Object3D, LOD>: the meshes that have a LOD object
    lodVariants,        \* the simplified meshes created and not disposed of
    simplified          \* the last simplifyGeometry call: its arguments and result

lodVars == <<lodObjects, lodVariants, simplified>>

\* ------------------------------------------------------------------------
\* Poller state (PollingService)
\* ------------------------------------------------------------------------
VARIABLES
    isActive,
    isTabVisible,
    projectId,          \* NoProject (null) or the project polled
    currentRetryCount,
    intervalId,         \* the id of the poll timer, or NoTimerId (null)
    retryTimeoutId,     \* the id of the retry timer, or NoTimerId (null)
    pollTimers,         \* the setTimeout timers of the service that are pending
    inFlight,           \* the getProjectStatus calls awaiting their response
    clock,              \* the time, in units of PollUnit milliseconds
    backoff,            \* the retry last scheduled: when it is due, and whether it still stands
    failStreak,         \* the failed fetches since the last success
    pollLast            \* the last thing the service did

pollVars == <<isActive, isTabVisible, projectId, currentRetryCount, intervalId,
              retryTimeoutId, pollTimers, inFlight, clock, backoff, failStreak, pollLast>>

\* ------------------------------------------------------------------------
\* Status-update state (StatusUpdateService)
\* ------------------------------------------------------------------------
VARIABLES
    previousStatusMap,  \* the panel data tracked, by its version (NoData when empty)
    meshPanelMappings,  \* whether mappings are set
    updateInProgress,
    statusRuns,         \* the updatePanelStatuses calls suspended in their batches
    statusLast          \* the last call and what it did

statusVars == <<previousStatusMap, meshPanelMappings, updateInProgress, statusRuns,
                statusLast>>

\* ------------------------------------------------------------------------
\* Recovery state (ErrorRecoveryService)
\* ------------------------------------------------------------------------
VARIABLES
    errorState,         \* hasApiError, hasStorageError, recoveryAttempts, isRecovering
    recoveryInterval,   \* the id of the setInterval timer, or NoTimerId (null)
    recoveryTimers,     \* the setInterval timers of the service that are not cleared
    ignoreStorageErrors,
    attempts,           \* the attemptRecovery calls awaiting a connection test
    recLast             \* the last call and the callbacks it made

recVars == <<errorState, recoveryInterval, recoveryTimers, ignoreStorageErrors, attempts,
             recLast>>

svcVars == <<lodVars, pollVars, statusVars, recVars>>

UserIds == {<<"usr", n>> : n \in 1..MaxUserIds}
GenIds == {<<"gen", n>> : n \in 1..MaxGenIds}
ResourceIds == UserIds \cup GenIds
Objects == {"objA", "objB"}
NoTimer == [live |-> FALSE]

\* bound: enableAutoCleanup is not called with MaxIntervals intervals pending
MaxIntervals == 2

\* clearInterval(handle), lines 589-592 (nothing to clear for a null handle)
ClearInterval(live, handle) ==
    IF handle.live THEN {t \in live : t.id # handle.id} ELSE live

\* mutant of IntervalsAfterDisable: enabling does not disable first
IntervalsAfterDisable_Kept(enabled, handle, live) == live

\* enableAutoCleanup, lines 572-574: the intervals left pending when the
\* service, if enabled, has been disabled
IntervalsAfterDisable(enabled, handle, live) ==
    IF enabled THEN ClearInterval(live, handle) ELSE live

\* the id window.setInterval returns: one no pending timer has
NewTimerId(live) == CHOOSE n \in 1..(Cardinality(live) + 1) : \A t \in live : t.id # n

Max(a, b) == IF a >= b THEN a ELSE b

\* The three maps of the service as one value, so that the methods compose.
Registry == [res |-> resources, objs |-> resourceObjects, queue |-> disposalQueue]

Tracked(R) == DOMAIN R.res

\* Map.set / Map.delete
MapSet(m, k, v) == [x \in (DOMAIN m) \cup {k} |-> IF x = k THEN v ELSE m[x]]
MapDelete(m, k) == [x \in (DOMAIN m) \ {k} |-> m[x]]

\* registerResource, lines 343-355: the record is built and stored under the id
\* whatever the maps held before.
RegisterIn(R, id, obj, t) ==
    [res   |-> MapSet(R.res, id, [refCount |-> 1, createdAt |-> t, lastUsed |-> t]),
     objs  |-> MapSet(R.objs, id, obj),
     queue |-> R.queue]

\* addReference, lines 365-369
AddReferenceIn(R, id, t) ==
    IF id \in Tracked(R)
    THEN [R EXCEPT !.res[id].refCount = @ + 1, !.res[id].lastUsed = t]
    ELSE R

\* removeReference, line 378
DecrementRef(rc) == Max(0, rc - 1)

\* removeReference, lines 376-384
RemoveReferenceIn(R, id) ==
    IF id \in Tracked(R)
    THEN LET rc == DecrementRef(R.res[id].refCount) IN
         [R EXCEPT !.res[id].refCount = rc,
                   !.queue = IF rc = 0 THEN @ \cup {id} ELSE @]
    ELSE R

\* touchResource, lines 391-394
TouchIn(R, id, t) ==
    IF id \in Tracked(R) THEN [R EXCEPT !.res[id].lastUsed = t] ELSE R

\* mutant of DisposeDenied: no call is refused
DisposeDenied_Never(refCount, force) == FALSE

\* mutant of DisposeDenied: one reference too many is tolerated
DisposeDenied_OffByOne(refCount, force) == ~force /\ refCount > 1

\* disposeResource, line 409: the call is refused
DisposeDenied(refCount, force) == ~force /\ refCount > 0

\* disposeResource, lines 401-454.  The kind-specific teardown (lines 414-446)
\* acts on the graphics objects only and is taken not to throw.
DisposeIn(R, id, force) ==
    IF id \notin Tracked(R) \/ id \notin DOMAIN R.objs
    THEN [R |-> R, ok |-> FALSE]
    ELSE IF DisposeDenied(R.res[id].refCount, force)
    THEN [R |-> R, ok |-> FALSE]
    ELSE [R |-> [res   |-> MapDelete(R.res, id),
                 objs  |-> MapDelete(R.objs, id),
                 queue |-> R.queue \ {id}],
          ok |-> TRUE]

\* The loops of processDisposalQueue (524-528), cleanup (558-562) and disposeAll
\* (657-659): disposeResource on each id in turn, collecting the ids disposed.
RECURSIVE DisposeEach(_, _, _)
DisposeEach(R, ids, force) ==
    IF ids = {} THEN [R |-> R, done |-> {}]
    ELSE LET id   == CHOOSE x \in ids : TRUE
             one  == DisposeIn(R, id, force)
             rest == DisposeEach(one.R, ids \ {id}, force)
         IN [R |-> rest.R,
             done |-> IF one.ok THEN rest.done \cup {id} ELSE rest.done]

\* processDisposalQueue, lines 521-532
ProcessDisposalQueueIn(R) == DisposeEach(R, R.queue, FALSE)

\* mutant of ShouldDispose: a resource as old as maxAge counts as stale
ShouldDispose_AgeInclusive(info, force, maxAge, minRefCount, t) ==
    force \/ (info.refCount <= minRefCount /\ (t - info.lastUsed) >= maxAge)

\* cleanup, lines 548-550
ShouldDispose(info, force, maxAge, minRefCount, t) ==
    force \/ (info.refCount <= minRefCount /\ (t - info.lastUsed) > maxAge)

\* cleanup, lines 537-566
CleanupIn(R, opts, t) ==
    LET toDispose == {id \in Tracked(R) :
                        ShouldDispose(R.res[id], opts.force, opts.maxAge,
                                      opts.minRefCount, t)}
    IN DisposeEach(R, toDispose, opts.force)

\* disposeAll, lines 654-662
DisposeAllIn(R) == DisposeEach(R, Tracked(R), TRUE)

\* DisposalOptions as the callers may pass them
DisposalOptions ==
    [force : {FALSE}, maxAge : 0..1, minRefCount : 0..1]
        \cup {[force |-> TRUE, maxAge |-> 0, minRefCount |-> 0]}
\* the options the interval callback is given by enableAutoCleanup
AutoCleanupOptions == {o \in DisposalOptions : o.maxAge = 0}

EmptyMap == [x \in {} |-> 0]

SetRegistry(R) ==
    /\ resources' = R.res
    /\ resourceObjects' = R.objs
    /\ disposalQueue' = R.queue

RegInit ==
    /\ resources = EmptyMap
    /\ resourceObjects = EmptyMap
    /\ disposalQueue = {}
    /\ autoCleanupInterval = NoTimer
    /\ isAutoCleanupEnabled = FALSE
    /\ liveIntervals = {}
    /\ now = 0
    /\ genCount = 0
    /\ last = [op |-> "none"]
    /\ disposed = {}

\* Date.now() advances between two tasks.
Tick ==
    /\ now < MaxTime
    /\ now' = now + 1
    /\ last' = [op |-> "tick"]
    /\ UNCHANGED <<loaderVars, optVars, svcVars, resources, resourceObjects, disposalQueue, autoCleanupInterval,
                   liveIntervals, isAutoCleanupEnabled, genCount, disposed>>

\* registerResource(resource, type, id) with a caller-supplied id
RegisterResource ==
    \E id \in UserIds, obj \in Objects :
        /\ SetRegistry(RegisterIn(Registry, id, obj, now))
        /\ last' = [op |-> "register", id |-> id]
        /\ UNCHANGED <<loaderVars, optVars, svcVars, autoCleanupInterval, liveIntervals, isAutoCleanupEnabled, now, genCount, disposed>>

\* registerResource(resource, type): the id comes from generateResourceId
\* (lines 667-669), a time stamp and nine random characters, taken to be fresh.
RegisterGenerated ==
    \E obj \in Objects :
        /\ genCount < MaxGenIds
        /\ LET id == <<"gen", genCount + 1>> IN
            /\ SetRegistry(RegisterIn(Registry, id, obj, now))
            /\ last' = [op |-> "register", id |-> id]
        /\ genCount' = genCount + 1
        /\ UNCHANGED <<loaderVars, optVars, svcVars, autoCleanupInterval, liveIntervals, isAutoCleanupEnabled, now, disposed>>

AddReference ==
    \E id \in ResourceIds :
        /\ id \in DOMAIN resources => resources[id].refCount < MaxRefs
        /\ SetRegistry(AddReferenceIn(Registry, id, now))
        /\ last' = [op |-> "addReference"]
        /\ UNCHANGED <<loaderVars, optVars, svcVars, autoCleanupInterval, liveIntervals, isAutoCleanupEnabled, now, genCount, disposed>>

RemoveReference ==
    \E id \in ResourceIds :
        /\ SetRegistry(RemoveReferenceIn(Registry, id))
        /\ last' = [op |-> "removeReference"]
        /\ UNCHANGED <<loaderVars, optVars, svcVars, autoCleanupInterval, liveIntervals, isAutoCleanupEnabled, now, genCount, disposed>>

TouchResource ==
    \E id \in ResourceIds :
        /\ SetRegistry(TouchIn(Registry, id, now))
        /\ last' = [op |-> "touch"]
        /\ UNCHANGED <<loaderVars, optVars, svcVars, autoCleanupInterval, liveIntervals, isAutoCleanupEnabled, now, genCount, disposed>>

DisposeResource ==
    \E id \in ResourceIds, force \in BOOLEAN :
        LET r == DisposeIn(Registry, id, force) IN
        /\ SetRegistry(r.R)
        /\ last' = [op |-> "dispose", id |-> id, force |-> force, ret |-> r.ok]
        /\ disposed' = IF r.ok THEN disposed \cup {id} ELSE disposed
        /\ UNCHANGED <<loaderVars, optVars, svcVars, autoCleanupInterval, liveIntervals, isAutoCleanupEnabled, now, genCount>>

ProcessDisposalQueue ==
    LET r == ProcessDisposalQueueIn(Registry) IN
    /\ SetRegistry(r.R)
    /\ last' = [op |-> "processDisposalQueue", force |-> FALSE,
                ret |-> Cardinality(r.done)]
    /\ disposed' = disposed \cup r.done
    /\ UNCHANGED <<loaderVars, optVars, svcVars, autoCleanupInterval, liveIntervals, isAutoCleanupEnabled, now, genCount>>

Cleanup ==
    \E opts \in DisposalOptions :
        LET r == CleanupIn(Registry, opts, now) IN
        /\ SetRegistry(r.R)
        /\ last' = [op |-> "cleanup", force |-> opts.force, maxAge |-> opts.maxAge,
                    minRefCount |-> opts.minRefCount, ret |-> Cardinality(r.done)]
        /\ disposed' = disposed \cup r.done
        /\ UNCHANGED <<loaderVars, optVars, svcVars, autoCleanupInterval, liveIntervals, isAutoCleanupEnabled, now, genCount>>

\* enableAutoCleanup, lines 571-583: an enabled service is disabled first
\* (clearInterval), then the new interval is set.
EnableAutoCleanup ==
    \E opts \in AutoCleanupOptions :
        LET pending == IntervalsAfterDisable(isAutoCleanupEnabled, autoCleanupInterval,
                                             liveIntervals)
            id == NewTimerId(pending)
        IN
        /\ Cardinality(pending) < MaxIntervals
        /\ isAutoCleanupEnabled' = TRUE
        /\ autoCleanupInterval' = [live |-> TRUE, options |-> opts, id |-> id]
        /\ liveIntervals' = pending \cup {[id |-> id, options |-> opts]}
        /\ last' = [op |-> "enableAutoCleanup", replaced |-> isAutoCleanupEnabled]
        /\ UNCHANGED <<loaderVars, optVars, svcVars, resources, resourceObjects, disposalQueue, now, genCount, disposed>>

\* disableAutoCleanup, lines 588-595
DisableAutoCleanup ==
    /\ autoCleanupInterval' = NoTimer
    /\ liveIntervals' = ClearInterval(liveIntervals, autoCleanupInterval)
    /\ isAutoCleanupEnabled' = FALSE
    /\ last' = [op |-> "disableAutoCleanup"]
    /\ UNCHANGED <<loaderVars, optVars, svcVars, resources, resourceObjects, disposalQueue, now, genCount, disposed>>

\* the interval callback, lines 577-580: cleanup(options), then processDisposalQueue()
AutoCleanupTick ==
    \E timer \in liveIntervals :
       LET c == CleanupIn(Registry, timer.options, now)
           p == ProcessDisposalQueueIn(c.R)
       IN /\ SetRegistry(p.R)
          /\ last' = [op |-> "autoCleanupTick",
                      force |-> timer.options.force,
                      ret |-> Cardinality(c.done) + Cardinality(p.done)]
          /\ disposed' = disposed \cup c.done \cup p.done
    /\ UNCHANGED <<loaderVars, optVars, svcVars, autoCleanupInterval, liveIntervals, isAutoCleanupEnabled, now, genCount>>

DisposeAll ==
    LET r == DisposeAllIn(Registry) IN
    /\ SetRegistry(r.R)
    /\ last' = [op |-> "disposeAll", force |-> TRUE]
    /\ disposed' = disposed \cup r.done
    /\ UNCHANGED <<loaderVars, optVars, svcVars, autoCleanupInterval, liveIntervals, isAutoCleanupEnabled, now, genCount>>


\* dispose, lines 720-726: the service itself is torn down
DisposeService ==
    LET r == DisposeAllIn(Registry) IN
    /\ autoCleanupInterval' = NoTimer
    /\ liveIntervals' = ClearInterval(liveIntervals, autoCleanupInterval)
    /\ isAutoCleanupEnabled' = FALSE
    /\ resources' = EmptyMap
    /\ resourceObjects' = EmptyMap
    /\ disposalQueue' = {}
    /\ last' = [op |-> "serviceDispose", force |-> TRUE]
    /\ disposed' = disposed \cup r.done
    /\ UNCHANGED <<loaderVars, optVars, svcVars, now, genCount>>

\* ------------------------------------------------------------------------
\* Scheduler (ProgressiveLoaderService)
\* ------------------------------------------------------------------------
\* bounds: meshes of a scene, values of maxConcurrentChunks, loads per run
MaxMeshes == 3
MaxCap == 3
MaxLoads == 1

\* LoadingPriority, progressiveLoader.ts lines 8-13
CRITICAL == 0
HIGH == 1
MEDIUM == 2
LOW == 3

\* estimateMeshSize, line 262: the material's share of a mesh's size
MaterialSizeEstimate == 1024

\* The meshes a scene is made of: name (its words), triangle count, byte length
\* of the geometry's buffers, the geometry's uuid (meshes 2 and 3 share one) and
\* the mesh's position on the axis the camera moves along.
MeshCatalog ==
    <<[name |-> <<"foundation", "a">>, triangles |-> 12, bytes |-> 2048, geo |-> 1,
       position |-> 0],
      [name |-> <<"panel", "wall", "1">>, triangles |-> 12, bytes |-> 1024, geo |-> 2,
       position |-> 0],
      [name |-> <<"facade", "2">>, triangles |-> 12, bytes |-> 2048, geo |-> 2,
       position |-> 0],
      [name |-> <<"trim", "fixture", "2">>, triangles |-> 20000, bytes |-> 1024, geo |-> 3,
       position |-> 0],
      [name |-> <<"roof">>, triangles |-> 500, bytes |-> 1024, geo |-> 4,
       position |-> 1]>>

MeshIds == DOMAIN MeshCatalog

RECURSIVE SeqsUpTo(_, _)
\* the sequences of distinct elements of S of length at most n
SeqsUpTo(S, n) ==
    IF n = 0 THEN {<<>>}
    ELSE LET shorter == SeqsUpTo(S, n - 1) IN
         shorter \cup {Append(q, x) : q \in {r \in shorter : Len(r) = n - 1},
                                       x \in S}

Range(q) == {q[i] : i \in DOMAIN q}
Distinct(q) == Cardinality(Range(q)) = Len(q)

\* the scenes handed to the loader: the meshes in traversal order
Scenes == {q \in SeqsUpTo(MeshIds, MaxMeshes) : Len(q) > 0 /\ Distinct(q)}

\* String.prototype.includes on a mesh name, by its words
Includes(name, word) == \E i \in DOMAIN name : name[i] = word

\* mutant of DetermineMeshPriority: the triangle count is looked at first
DetermineMeshPriority_ComplexityFirst(m) ==
    LET name == MeshCatalog[m].name
        triangleCount == MeshCatalog[m].triangles
    IN IF triangleCount > 10000 THEN HIGH
       ELSE IF triangleCount > 1000 THEN MEDIUM
       ELSE IF Includes(name, "structure") \/ Includes(name, "foundation") \/ Includes(name, "core")
       THEN CRITICAL
       ELSE IF Includes(name, "panel") \/ Includes(name, "facade") \/ Includes(name, "wall")
       THEN HIGH
       ELSE IF Includes(name, "detail") \/ Includes(name, "trim") \/ Includes(name, "fixture")
       THEN MEDIUM
       ELSE LOW

\* determineMeshPriority, lines 160-185
DetermineMeshPriority(m) ==
    LET name == MeshCatalog[m].name
        triangleCount == MeshCatalog[m].triangles
    IN IF Includes(name, "structure") \/ Includes(name, "foundation") \/ Includes(name, "core")
       THEN CRITICAL
       ELSE IF Includes(name, "panel") \/ Includes(name, "facade") \/ Includes(name, "wall")
       THEN HIGH
       ELSE IF Includes(name, "detail") \/ Includes(name, "trim") \/ Includes(name, "fixture")
       THEN MEDIUM
       ELSE IF triangleCount > 10000 THEN HIGH
       ELSE IF triangleCount > 1000 THEN MEDIUM
       ELSE LOW

\* estimateMeshSize, lines 246-265
EstimateMeshSize(m) == MeshCatalog[m].bytes + MaterialSizeEstimate

\* groupMeshesByPriority, lines 141-155: one group of a class, in traversal order
GroupOfPriority(meshes, p) == SelectSeq(meshes, LAMBDA m : DetermineMeshPriority(m) = p)

\* createChunk, lines 233-241
CreateChunk(meshes, priority, size) ==
    [priority |-> priority, meshes |-> meshes, estimatedSize |-> size, loaded |-> FALSE]

\* mutant of ExceedsLimit: the chunk is closed only once it is over the limit
ExceedsLimit_AfterTheFact(currentSize, meshSize, limit) == currentSize > limit

\* createChunksFromMeshes, line 212: adding the mesh would exceed the limit
ExceedsLimit(currentSize, meshSize, limit) == currentSize + meshSize > limit

RECURSIVE ChunkLoop(_, _, _, _, _, _)
\* createChunksFromMeshes, lines 208-225: the forEach from mesh i on, with the
\* chunks closed so far, the current chunk and its size
ChunkLoop(meshes, i, priority, limit, closed, current) ==
    IF i > Len(meshes)
    THEN IF Len(current.meshes) > 0
         THEN Append(closed, CreateChunk(current.meshes, priority, current.size))
         ELSE closed
    ELSE LET meshSize == EstimateMeshSize(meshes[i])
             full == ExceedsLimit(current.size, meshSize, limit) /\ Len(current.meshes) > 0
             closed2 == IF full
                        THEN Append(closed, CreateChunk(current.meshes, priority, current.size))
                        ELSE closed
             base == IF full THEN [meshes |-> <<>>, size |-> 0] ELSE current
         IN ChunkLoop(meshes, i + 1, priority, limit, closed2,
                      [meshes |-> Append(base.meshes, meshes[i]),
                       size |-> base.size + meshSize])

\* createChunksFromMeshes, lines 203-228
CreateChunksFromMeshes(meshes, priority, limit) ==
    ChunkLoop(meshes, 1, priority, limit, <<>>, [meshes |-> <<>>, size |-> 0])

\* analyzeAndChunkModel, lines 112-136: Object.entries visits the integer keys
\* of priorityGroups in ascending order
AnalyzeAndChunkModel(scene, limit) ==
    CreateChunksFromMeshes(GroupOfPriority(scene, CRITICAL), CRITICAL, limit)
    \o CreateChunksFromMeshes(GroupOfPriority(scene, HIGH), HIGH, limit)
    \o CreateChunksFromMeshes(GroupOfPriority(scene, MEDIUM), MEDIUM, limit)
    \o CreateChunksFromMeshes(GroupOfPriority(scene, LOW), LOW, limit)

\* mutant of ComparePriority: the operands are swapped
ComparePriority_Swapped(a, b) == b.priority - a.priority

\* the comparator of line 89: a negative value puts a before b
ComparePriority(a, b) == a.priority - b.priority

RECURSIVE InsertSorted(_, _)
\* x after every element that does not compare greater than it (a stable sort)
InsertSorted(sorted, x) ==
    IF sorted = <<>> THEN <<x>>
    ELSE IF ComparePriority(sorted[Len(sorted)], x) <= 0
    THEN Append(sorted, x)
    ELSE Append(InsertSorted(SubSeq(sorted, 1, Len(sorted) - 1), x), sorted[Len(sorted)])

RECURSIVE SortLoop(_, _, _)
SortLoop(list, i, sorted) ==
    IF i > Len(list) THEN sorted
    ELSE SortLoop(list, i + 1, InsertSorted(sorted, list[i]))

\* Array.prototype.sort with the comparator of line 89; the sort is stable
SortChunks(list) == SortLoop(list, 1, <<>>)

\* the ids registered for mesh m by loadChunk, lines 307-317
MeshResourceIds(m) == <<(<<"mesh", m>>), (<<"geo", MeshCatalog[m].geo>>), (<<"mat", m>>)>>

\* the objects of the scene are not told apart in the registry's object map
SceneObject == "sceneObject"

RECURSIVE RegisterAll(_, _, _)
\* loadChunk, lines 303-319: registerResource for each id in turn
RegisterAll(R, ids, t) ==
    IF ids = <<>> THEN R
    ELSE RegisterAll(RegisterIn(R, Head(ids), SceneObject, t), Tail(ids), t)

RECURSIVE ChunkResourceIds(_)
ChunkResourceIds(meshes) ==
    IF meshes = <<>> THEN <<>>
    ELSE MeshResourceIds(Head(meshes)) \o ChunkResourceIds(Tail(meshes))

\* loadChunk, line 322
StaggerDelay(priority, priorityDelayMs) == priority * priorityDelayMs

\* the values updateOptions is given
OptionValues ==
    [maxConcurrentChunks : 0..MaxCap,
     chunkSizeLimit : {2048, 5 * 1024 * 1024},
     priorityDelayMs : {0, 100}]

\* the defaults of lines 47-53
DefaultOptions ==
    [maxConcurrentChunks |-> 3, chunkSizeLimit |-> 5 * 1024 * 1024,
     priorityDelayMs |-> 100, distanceBasedLoading |-> TRUE]

\* updateOptions, line 417: { ...this.options, ...newOptions }
MergeOptions(old, new) ==
    [k \in DOMAIN old |-> IF k \in DOMAIN new THEN new[k] ELSE old[k]]

\* the camera field before initialize (line 44)
NoCamera == "null"

LoaderInit ==
    /\ options = DefaultOptions
    /\ chunks = <<>>
    /\ loadingQueue = <<>>
    /\ activeLoads = {}
    /\ loadedChunks = {}
    /\ delayed = {}
    /\ inCallback = {}
    /\ pc = "idle"
    /\ totalChunks = 0
    /\ loadedCount = 0
    /\ visible = [m \in MeshIds |-> TRUE]
    /\ loadCount = 0
    /\ startOrder = <<>>
    /\ modelResult = <<>>
    /\ camera = NoCamera

\* No synchronous code of the loader is running and no microtask is pending:
\* the event loop can run a timer or a call from the application.
EventLoopFree == inCallback = {} /\ pc \in {"idle", "poll", "done"}

\* updateOptions, lines 416-419, as the application calls it: between two
\* loads.  A load runs with the options it started with.
UpdateOptionsIn(values) ==
    \E o \in values :
        /\ inCallback = {}
        /\ pc \in {"idle", "done"}
        /\ options' = MergeOptions(options, o)
        /\ UNCHANGED <<regVars, optVars, svcVars, modelResult, camera, chunks, loadingQueue, activeLoads, loadedChunks, delayed,
                       inCallback, pc, totalChunks, loadedCount, visible, loadCount,
                       startOrder>>

UpdateOptions == UpdateOptionsIn(OptionValues)

\* a LoadingChunk as the model keeps it: its fields, and the load that created
\* it (bookkeeping of the model, read by the claims only)
ChunkObject(chunk, load) ==
    [priority |-> chunk.priority, meshes |-> chunk.meshes,
     estimatedSize |-> chunk.estimatedSize, loaded |-> chunk.loaded, load |-> load]

\* loadModelProgressively, lines 85-92: the chunks of a scene in creation
\* order, and their positions in the order the queue holds them after the sort
LoadPlan(scene, limit) ==
    LET created == AnalyzeAndChunkModel(scene, limit)
        sorted == SortChunks([i \in 1..Len(created) |->
                                 [id |-> i, priority |-> created[i].priority]])
    IN [created |-> created, order |-> [i \in 1..Len(sorted) |-> sorted[i].id]]

\* LoadPlan of every scene and chunk size limit the model draws
LoadPlans ==
    [scene \in Scenes |-> [limit \in {o.chunkSizeLimit : o \in OptionValues}
                              |-> LoadPlan(scene, limit)]]

\* the meshes of the chunks created so far
ChunkedMeshes == UNION {Range(chunks[c].meshes) : c \in DOMAIN chunks}

\* loadModelProgressively, lines 76-83: modelLoader.loadModel has resolved.  It
\* parses the file anew, so the meshes of a load are objects no earlier load had.
LoadModel(scenes, maxLoads) ==
    \E scene \in scenes :
        /\ inCallback = {}
        /\ pc \in {"idle", "done"}
        /\ loadCount < maxLoads
        /\ Range(scene) \cap ChunkedMeshes = {}
        /\ modelResult' = scene
        /\ loadCount' = loadCount + 1
        /\ pc' = "loaded"
        /\ UNCHANGED <<regVars, optVars, svcVars, camera, options, chunks, loadingQueue, activeLoads,
                       loadedChunks, delayed, inCallback, totalChunks, loadedCount,
                       visible, startOrder>>

\* loadModelProgressively, lines 85-95: chunk, sort, enqueue and enter
\* processLoadingQueue (lines 271-272).  modelResult is not read again before
\* the function returns it.
ChunkAndEnqueue ==
    /\ pc = "loaded"
    /\ LET plan == LoadPlans[modelResult][options.chunkSizeLimit]
           base == Cardinality(DOMAIN chunks)
           n == Len(plan.created)
       IN /\ chunks' = [c \in 1..(base + n) |->
                           IF c <= base THEN chunks[c]
                           ELSE ChunkObject(plan.created[c - base], loadCount)]
          /\ loadingQueue' = [i \in 1..n |-> base + plan.order[i]]
          /\ totalChunks' = n
    /\ loadedCount' = 0
    /\ modelResult' = <<>>
    /\ pc' = "loop"
    /\ UNCHANGED <<regVars, optVars, svcVars, camera, options, activeLoads, loadedChunks, delayed,
                   inCallback, visible, loadCount, startOrder>>

LoadModelProgressively == LoadModel(Scenes, MaxLoads)

\* processLoadingQueue, line 274: the test of the outer while
LoopTest ==
    /\ pc = "loop"
    /\ pc' = IF Len(loadingQueue) > 0 \/ Cardinality(activeLoads) > 0
             THEN "starting" ELSE "done"
    /\ UNCHANGED <<regVars, optVars, svcVars, modelResult, camera, options, chunks, loadingQueue, activeLoads, loadedChunks,
                   delayed, inCallback, totalChunks, loadedCount, visible, loadCount,
                   startOrder>>

\* mutant of CanStartChunk: the limit is compared with <=
CanStartChunk_OffByOne ==
    Cardinality(activeLoads) <= options.maxConcurrentChunks /\ Len(loadingQueue) > 0

\* processLoadingQueue, lines 276-279: the test of the inner while
CanStartChunk ==
    Cardinality(activeLoads) < options.maxConcurrentChunks /\ Len(loadingQueue) > 0

\* processLoadingQueue, line 280
NextChunk(queue) == Head(queue)

\* processLoadingQueue, lines 276-282, and loadChunk up to its first suspension,
\* lines 297-325.  throws: the registration of the chunk's first mesh throws,
\* which lines 338-342 catch.
StartChunk ==
    \E throws \in BOOLEAN :
        /\ pc = "starting"
        /\ inCallback = {}
        /\ CanStartChunk
        /\ LET c == NextChunk(loadingQueue)
               ms == chunks[c].meshes
               delay == StaggerDelay(chunks[c].priority, options.priorityDelayMs)
           IN /\ loadingQueue' = Tail(loadingQueue)
              /\ startOrder' = Append(startOrder, c)
              /\ IF throws
                 THEN /\ visible' = [visible EXCEPT ![ms[1]] = FALSE]
                      /\ UNCHANGED <<regVars, activeLoads, delayed, chunks, loadedChunks,
                                     inCallback>>
                 ELSE /\ SetRegistry(RegisterAll(Registry, ChunkResourceIds(ms), now))
                      /\ activeLoads' = activeLoads \cup {c}
                      /\ UNCHANGED <<autoCleanupInterval, liveIntervals, isAutoCleanupEnabled, now,
                                     genCount, last, disposed>>
                      /\ IF delay > 0
                         THEN /\ delayed' = delayed \cup {c}
                              /\ visible' = [m \in MeshIds |->
                                               IF m \in Range(ms) THEN FALSE ELSE visible[m]]
                              /\ UNCHANGED <<chunks, loadedChunks, inCallback>>
                         ELSE /\ visible' = [m \in MeshIds |->
                                               IF m \in Range(ms) THEN TRUE ELSE visible[m]]
                              /\ chunks' = [chunks EXCEPT ![c].loaded = TRUE]
                              /\ loadedChunks' = loadedChunks \cup {c}
                              /\ inCallback' = {c}
                              /\ UNCHANGED delayed
        /\ UNCHANGED <<optVars, svcVars, modelResult, camera, options, pc, totalChunks, loadedCount,
                       loadCount>>

\* loadChunk resumed by its stagger timer, lines 324-336
ChunkTimer ==
    \E c \in delayed :
        /\ EventLoopFree
        /\ delayed' = delayed \ {c}
        /\ visible' = [m \in MeshIds |->
                          IF m \in Range(chunks[c].meshes) THEN TRUE ELSE visible[m]]
        /\ chunks' = [chunks EXCEPT ![c].loaded = TRUE]
        /\ loadedChunks' = loadedChunks \cup {c}
        /\ inCallback' = {c}
        /\ UNCHANGED <<regVars, optVars, svcVars, modelResult, camera, options, loadingQueue, activeLoads, pc, totalChunks,
                       loadedCount, loadCount, startOrder>>

\* loadChunk, lines 336-342: onChunkLoaded returns (or throws), then the finally
ChunkLoadedReturn ==
    /\ inCallback # {}
    /\ activeLoads' = activeLoads \ inCallback
    /\ inCallback' = {}
    /\ UNCHANGED <<regVars, optVars, svcVars, modelResult, camera, options, chunks, loadingQueue, loadedChunks, delayed, pc,
                   totalChunks, loadedCount, visible, loadCount, startOrder>>

\* waitForChunkCompletion, line 351
CompletionSeen ==
    Cardinality(activeLoads) < options.maxConcurrentChunks \/ Len(loadingQueue) = 0

\* processLoadingQueue, line 285, and the first checkCompletion (lines 349-357):
\* resolved at once, the loop goes on in a microtask to lines 288-289;
\* otherwise a 50 ms timer is set
WaitForChunkCompletion ==
    /\ pc = "starting"
    /\ inCallback = {}
    /\ ~CanStartChunk
    /\ IF CompletionSeen
       THEN /\ loadedCount' = Cardinality(loadedChunks)
            /\ pc' = "progress"
       ELSE /\ pc' = "poll"
            /\ UNCHANGED loadedCount
    /\ UNCHANGED <<regVars, optVars, svcVars, modelResult, camera, options, chunks, loadingQueue, activeLoads, loadedChunks,
                   delayed, inCallback, totalChunks, visible, loadCount, startOrder>>

\* the 50 ms timer of line 354 runs checkCompletion again
PollTimer ==
    /\ pc = "poll"
    /\ EventLoopFree
    /\ IF CompletionSeen
       THEN /\ loadedCount' = Cardinality(loadedChunks)
            /\ pc' = "progress"
       ELSE UNCHANGED <<pc, loadedCount>>
    /\ UNCHANGED <<regVars, optVars, svcVars, modelResult, camera, options, chunks, loadingQueue, activeLoads, loadedChunks,
                   delayed, inCallback, totalChunks, visible, loadCount, startOrder>>

\* processLoadingQueue, lines 289-290: onProgress returns, back to line 274
ProgressReturn ==
    /\ pc = "progress"
    /\ pc' = "loop"
    /\ UNCHANGED <<regVars, optVars, svcVars, modelResult, camera, options, chunks, loadingQueue, activeLoads, loadedChunks,
                   delayed, inCallback, totalChunks, loadedCount, visible, loadCount,
                   startOrder>>

\* mutant of Reset: the resources are disposed of as well
Reset_DisposingAll ==
    /\ EventLoopFree \/ inCallback # {} \/ pc = "progress"
    /\ loadingQueue' = <<>>
    /\ activeLoads' = {}
    /\ loadedChunks' = {}
    /\ SetRegistry(DisposeAllIn(Registry).R)
    /\ UNCHANGED <<autoCleanupInterval, liveIntervals, isAutoCleanupEnabled, now, genCount, last, disposed,
                   optVars, svcVars, modelResult, camera, options, chunks, delayed, inCallback, pc,
                   totalChunks, loadedCount, visible, loadCount, startOrder>>

\* reset, lines 431-435: the three collections are emptied; timers that are
\* pending and the position of processLoadingQueue are left as they are.
Reset ==
    /\ EventLoopFree \/ inCallback # {} \/ pc = "progress"
    /\ loadingQueue' = <<>>
    /\ activeLoads' = {}
    /\ loadedChunks' = {}
    /\ UNCHANGED <<regVars, optVars, svcVars, modelResult, camera, options, chunks, delayed,
                   inCallback, pc, totalChunks, loadedCount, visible, loadCount,
                   startOrder>>

\* initialize, lines 61-65
InitializeLoader ==
    /\ camera' = "camera"
    /\ UNCHANGED <<regVars, optVars, svcVars, modelResult, options, chunks, loadingQueue,
                   activeLoads, loadedChunks, delayed, inCallback, pc, totalChunks,
                   loadedCount, visible, loadCount, startOrder>>

\* where the camera can stand on its axis
CameraPositions == {0, 50, 51, 100, 101}

\* Vector3.distanceTo, line 373, on the camera's axis
DistanceTo(cameraPosition, m) ==
    IF cameraPosition >= MeshCatalog[m].position
    THEN cameraPosition - MeshCatalog[m].position
    ELSE MeshCatalog[m].position - cameraPosition

\* mutant of HiddenAtDistance: the thresholds of the two classes are exchanged
HiddenAtDistance_Exchanged(priority, distance) ==
    (priority >= MEDIUM /\ distance > 50) \/ (priority >= LOW /\ distance > 100)

\* updateDistanceBasedLoading, lines 376-382: the mesh is hidden
HiddenAtDistance(priority, distance) ==
    (priority >= MEDIUM /\ distance > 100) \/ (priority >= LOW /\ distance > 50)

\* the chunk of loadedChunks that holds mesh m (a mesh is in one chunk)
LoadedChunkOf(m) == CHOOSE c \in loadedChunks : m \in Range(chunks[c].meshes)

\* the meshes of the chunks in loadedChunks
LoadedMeshes == UNION {Range(chunks[c].meshes) : c \in loadedChunks}

\* updateDistanceBasedLoading, lines 364-385, with the camera at cameraPosition
UpdateDistanceAt(cameraPosition) ==
    /\ EventLoopFree
    /\ IF ~options.distanceBasedLoading \/ camera = NoCamera
       THEN UNCHANGED visible
       ELSE visible' = [m \in MeshIds |->
                IF m \in LoadedMeshes
                THEN ~HiddenAtDistance(chunks[LoadedChunkOf(m)].priority,
                                       DistanceTo(cameraPosition, m))
                ELSE visible[m]]
    /\ UNCHANGED <<regVars, optVars, svcVars, modelResult, camera, options, chunks, loadingQueue,
                   activeLoads, loadedChunks, delayed, inCallback, pc, totalChunks,
                   loadedCount, loadCount, startOrder>>

UpdateDistanceBasedLoading == \E cameraPosition \in CameraPositions : UpdateDistanceAt(cameraPosition)

\* ------------------------------------------------------------------------
\* Quality controller (RenderOptimizerService, part_003 lines 28-400, and the
\* metrics it reads from PerformanceMonitorService)
\* ------------------------------------------------------------------------
\* bounds: samples kept by the monitor (maxMetricsHistory), evaluations logged
MaxMetricsHistory == 1
MaxEvaluations == 2

\* pixel ratios are kept in thousandths: 1000 is a ratio of 1
PixelRatioOne == 1000

\* window.devicePixelRatio as browsers report it: 1 and 3
DevicePixelRatios == {PixelRatioOne, 3 * PixelRatioOne}

\* the fps of a sample, and the targets the application sets
FpsValues == {23, 24, 36, 37, 73}
TargetValues == {30, 60}

Min(a, b) == IF a <= b THEN a ELSE b

\* the renderer field before initialize (line 29)
NoRenderer == [set |-> FALSE]

\* Math.min(window.devicePixelRatio, 2), lines 74, 296 and 380
MaxPixelRatio(dpr) == Min(dpr, 2 * PixelRatioOne)

\* the defaults of lines 36-43
DefaultSettings == [targetFPS |-> 30, adaptiveQuality |-> TRUE]

\* minFPS of the monitor's thresholds, performanceMonitor.ts line 55
MinFPS == 30

OptInit ==
    /\ renderer = NoRenderer
    /\ devicePixelRatio = PixelRatioOne
    /\ settings = DefaultSettings
    /\ metrics = <<>>
    /\ qualityLog = <<>>

\* the meshes of the scene the optimizer traverses: those of the models loaded
SceneMeshes == ChunkedMeshes

\* Math.max(1, currentPixelRatio * 0.8), line 279
ReducedPixelRatio(r) == Max(PixelRatioOne, (r * 8) \div 10)

\* Math.min(maxPixelRatio, currentPixelRatio * 1.1), line 301
IncreasedPixelRatio(r, dpr) == Min(MaxPixelRatio(dpr), (r * 11) \div 10)

\* reduceQuality, lines 273-288
ReduceQuality(r) ==
    IF ~r.set THEN r
    ELSE [set |-> TRUE,
          pixelRatio |-> IF r.pixelRatio > PixelRatioOne
                         THEN ReducedPixelRatio(r.pixelRatio) ELSE r.pixelRatio,
          shadowMapEnabled |-> FALSE]

\* increaseQuality, lines 293-310
IncreaseQuality(r, dpr) ==
    IF ~r.set THEN r
    ELSE [set |-> TRUE,
          pixelRatio |-> IF r.pixelRatio < MaxPixelRatio(dpr)
                         THEN IncreasedPixelRatio(r.pixelRatio, dpr) ELSE r.pixelRatio,
          shadowMapEnabled |-> TRUE]

\* mutant of FpsBelow: a sample on the lower threshold counts as poor
FpsBelow_Inclusive(fps, targetFPS) == fps * 10 <= targetFPS * 8

\* adaptiveOptimization, line 261: fps < targetFPS * 0.8
FpsBelow(fps, targetFPS) == fps * 10 < targetFPS * 8

\* adaptiveOptimization, line 264: fps > targetFPS * 1.2
FpsAbove(fps, targetFPS) == fps * 10 > targetFPS * 12

\* getCurrentMetrics, performanceMonitor.ts lines 279-281: is there a sample
HasMetrics(m) == Len(m) > 0
CurrentMetrics(m) == m[Len(m)]

\* mutant of SkipsQualityStep: a missing sample does not stop the evaluation
SkipsQualityStep_MetricsIgnored(st, m) == ~st.adaptiveQuality

\* adaptiveOptimization, lines 253-256: the two early returns
SkipsQualityStep(st, m) == ~st.adaptiveQuality \/ ~HasMetrics(m)

\* adaptiveOptimization, lines 252-268, on renderer r: the renderer after it.
\* A missing sample reads as fps 0 where the early return is taken away.
AdaptiveOptimizationIn(r, st, m, dpr) ==
    IF SkipsQualityStep(st, m) THEN r
    ELSE LET fps == IF HasMetrics(m) THEN CurrentMetrics(m) ELSE 0 IN
         IF FpsBelow(fps, st.targetFPS) THEN ReduceQuality(r)
         ELSE IF FpsAbove(fps, st.targetFPS) THEN IncreaseQuality(r, dpr)
         ELSE r

\* what an adaptiveOptimization call leaves in the log: whether there was a
\* sample and its fps, the settings and the cap of the moment, and the
\* renderer before and after
LogEntry(r, st, m, dpr) ==
    [sampled |-> HasMetrics(m),
     fps |-> IF HasMetrics(m) THEN CurrentMetrics(m) ELSE 0,
     adaptiveQuality |-> st.adaptiveQuality,
     targetFPS |-> st.targetFPS,
     cap |-> MaxPixelRatio(dpr),
     before |-> r,
     after |-> AdaptiveOptimizationIn(r, st, m, dpr)]

\* initialize, lines 54-65, and setupRendererOptimizations, lines 70-85
InitializeOptimizer ==
    /\ renderer' = [set |-> TRUE, pixelRatio |-> MaxPixelRatio(devicePixelRatio),
                    shadowMapEnabled |-> TRUE]
    /\ qualityLog' = <<>>
    /\ UNCHANGED <<svcVars, regVars, loaderVars, devicePixelRatio, settings, metrics>>

\* the window moves to a screen of another density, or the page is zoomed
DevicePixelRatioChange ==
    \E d \in DevicePixelRatios :
        /\ devicePixelRatio' = d
        /\ UNCHANGED <<svcVars, regVars, loaderVars, renderer, settings, metrics, qualityLog>>

\* updateSettings, lines 315-318
UpdateSettings ==
    \E t \in TargetValues, a \in BOOLEAN :
        /\ settings' = [targetFPS |-> t, adaptiveQuality |-> a]
        /\ UNCHANGED <<svcVars, regVars, loaderVars, renderer, devicePixelRatio, metrics, qualityLog>>

\* adaptiveOptimization, lines 252-268
AdaptiveOptimization ==
    /\ Len(qualityLog) < MaxEvaluations
    /\ renderer' = AdaptiveOptimizationIn(renderer, settings, metrics, devicePixelRatio)
    /\ qualityLog' = Append(qualityLog, LogEntry(renderer, settings, metrics, devicePixelRatio))
    /\ UNCHANGED <<svcVars, regVars, loaderVars, devicePixelRatio, settings, metrics>>

\* collectMetrics, performanceMonitor.ts lines 111-143: the sample is pushed
\* and the history cut to maxMetricsHistory; when a threshold is exceeded
\* (issues: one other than minFPS) onPerformanceIssues runs adaptiveOptimization
\* (part_008 lines 43-46).
CollectMetrics ==
    \E fps \in FpsValues, issues \in BOOLEAN :
        LET pushed == Append(metrics, fps)
            kept == IF Len(pushed) > MaxMetricsHistory THEN Tail(pushed) ELSE pushed
        IN /\ renderer.set
           /\ metrics' = kept
           /\ IF (fps < MinFPS \/ issues) /\ Len(qualityLog) < MaxEvaluations
              THEN /\ renderer' = AdaptiveOptimizationIn(renderer, settings, kept,
                                                         devicePixelRatio)
                   /\ qualityLog' = Append(qualityLog,
                                           LogEntry(renderer, settings, kept,
                                                    devicePixelRatio))
              ELSE UNCHANGED <<renderer, qualityLog>>
           /\ UNCHANGED <<svcVars, regVars, loaderVars, devicePixelRatio, settings>>

\* PerformanceMonitorService.reset, performanceMonitor.ts lines 378-382
MonitorReset ==
    /\ metrics' = <<>>
    /\ UNCHANGED <<svcVars, regVars, loaderVars, renderer, devicePixelRatio, settings, qualityLog>>

\* performFrustumCulling, lines 231-247: every mesh of the scene is visible
\* iff the frustum of the moment intersects it
PerformFrustumCulling ==
    \E inFrustum \in SUBSET SceneMeshes :
        /\ EventLoopFree
        /\ renderer.set
        /\ visible' = [m \in MeshIds |->
                          IF m \in SceneMeshes THEN m \in inFrustum ELSE visible[m]]
        /\ UNCHANGED <<regVars, optVars, svcVars, modelResult, camera, options, chunks, loadingQueue,
                       activeLoads, loadedChunks, delayed, inCallback, pc, totalChunks,
                       loadedCount, loadCount, startOrder>>

\* RenderOptimizerService.reset, lines 376-389
OptimizerReset ==
    /\ EventLoopFree
    /\ renderer' = IF renderer.set
                   THEN [set |-> TRUE, pixelRatio |-> MaxPixelRatio(devicePixelRatio),
                         shadowMapEnabled |-> TRUE]
                   ELSE renderer
    /\ visible' = [m \in MeshIds |->
                      IF renderer.set /\ m \in SceneMeshes THEN TRUE ELSE visible[m]]
    /\ qualityLog' = <<>>
    /\ lodObjects' = {}
    /\ UNCHANGED <<pollVars, statusVars, recVars, lodVariants, simplified, regVars,
                   devicePixelRatio, settings, metrics, modelResult, camera,
                   options, chunks, loadingQueue, activeLoads, loadedChunks, delayed,
                   inCallback, pc, totalChunks, loadedCount, loadCount, startOrder>>

\* RenderOptimizerService.dispose, lines 394-399: reset(), then the renderer,
\* the scene and the camera are let go
OptimizerDispose ==
    /\ EventLoopFree
    /\ renderer' = NoRenderer
    /\ visible' = [m \in MeshIds |->
                      IF renderer.set /\ m \in SceneMeshes THEN TRUE ELSE visible[m]]
    /\ qualityLog' = <<>>
    /\ lodObjects' = {}
    /\ UNCHANGED <<pollVars, statusVars, recVars, lodVariants, simplified, regVars,
                   devicePixelRatio, settings, metrics, modelResult, camera,
                   options, chunks, loadingQueue, activeLoads, loadedChunks, delayed,
                   inCallback, pc, totalChunks, loadedCount, loadCount, startOrder>>

\* ------------------------------------------------------------------------
\* Level of detail (RenderOptimizerService, part_003 lines 89-176)
\* ------------------------------------------------------------------------
\* bound: the index counts simplifyGeometry is given are 1 .. MaxIndexCount
MaxIndexCount == 40

\* defaultLODConfig.geometryReductions (line 47) of the levels 1..3, in percent
GeometryReductions == <<50, 75, 90>>
LodLevels == DOMAIN GeometryReductions

\* the meshes createLODForMesh is called for
LodMeshes == {1, 4}

\* geometry.index.count: three indices per triangle
IndexCount(m) == 3 * MeshCatalog[m].triangles

\* line 164: Math.floor(indices.count * (1 - reduction)).  1 - 0.5 and
\* 1 - 0.75 are exact doubles; 1 - 0.9 is 0.09999999999999998, so that the
\* product stays under the integer where count / 10 is one.
TargetCount(count, reduction) ==
    LET exact == (count * (100 - reduction)) \div 100 IN
    IF reduction = 90 /\ count % 10 = 0 THEN exact - 1 ELSE exact

\* line 165: Math.max(1, Math.floor(indices.count / targetCount)); with a
\* target of 0 the quotient is Infinity and only index 0 is kept, as with any
\* step of count or more
Step(count, targetCount) ==
    IF targetCount = 0 THEN count ELSE Max(1, count \div targetCount)

\* lines 167-170: the positions i = 0, step, 2 step, ... under count
KeptCount(count, step) == ((count - 1) \div step) + 1

\* simplifyGeometry, lines 150-176, for an indexed geometry
SimplifyGeometryOf(count, reduction) ==
    LET targetCount == TargetCount(count, reduction)
        step == Step(count, targetCount)
    IN [called |-> TRUE, count |-> count, reduction |-> reduction,
        targetCount |-> targetCount, step |-> step,
        kept |-> KeptCount(count, step)]

LodInit ==
    /\ lodObjects = {}
    /\ lodVariants = {}
    /\ simplified = [called |-> FALSE]

\* createSimplifiedMesh (lines 117-145) on a geometry of count indices: the
\* geometry is cloned and simplified
SimplifyGeometry ==
    \E count \in 1..MaxIndexCount, level \in LodLevels :
        /\ simplified' = SimplifyGeometryOf(count, GeometryReductions[level])
        /\ UNCHANGED <<regVars, loaderVars, optVars, pollVars, statusVars, recVars,
                       lodObjects, lodVariants>>

\* createLODForMesh, lines 89-112, with the default config: one simplified
\* mesh per level, each a new mesh on a clone of the geometry; the LOD object
\* is stored under the mesh.  No call of the resource manager is made.
CreateLODForMesh ==
    \E m \in LodMeshes :
        /\ lodVariants' = lodVariants \cup {<<m, level>> : level \in LodLevels}
        /\ lodObjects' = lodObjects \cup {m}
        /\ simplified' = SimplifyGeometryOf(IndexCount(m),
                                            GeometryReductions[Len(GeometryReductions)])
        /\ UNCHANGED <<regVars, loaderVars, optVars, pollVars, statusVars, recVars>>

\* ------------------------------------------------------------------------
\* Error recovery (ErrorRecoveryService, part_006 lines 25-290)
\* ------------------------------------------------------------------------
\* maxRecoveryAttempts, part_006 line 41
MaxRecoveryAttempts == 10

\* a timer handle that is null
NoTimerId == 0

\* the connection tests an attemptRecovery call can be waiting for
Stages == {"api", "storage"}

\* The fields of the service as one value, so that the methods compose; calls
\* collects the callbacks made, each with the state it was made in.
Recovery ==
    [es |-> errorState, interval |-> recoveryInterval, timers |-> recoveryTimers,
     ignore |-> ignoreStorageErrors, attempts |-> attempts, calls |-> <<>>]

SetRecovery(X, op) ==
    /\ errorState' = X.es
    /\ recoveryInterval' = X.interval
    /\ recoveryTimers' = X.timers
    /\ ignoreStorageErrors' = X.ignore
    /\ attempts' = X.attempts
    /\ recLast' = [op |-> op, before |-> errorState, calls |-> X.calls]

\* hasErrors, lines 134-136
HasErrors(es) == es.hasApiError \/ es.hasStorageError

\* a callback is invoked: what it finds
Callback(X, name) ==
    [X EXCEPT !.calls = Append(@, [cb |-> name, es |-> X.es, interval |-> X.interval,
                                   timers |-> X.timers])]

\* stopRecovery, lines 153-161
StopRecoveryIn(X) ==
    [X EXCEPT !.timers = IF X.interval # NoTimerId THEN @ \ {X.interval} ELSE @,
              !.interval = NoTimerId,
              !.es.isRecovering = FALSE,
              !.es.recoveryAttempts = 0]

\* mutant of FullyRecovered: the remaining errors are not looked at
FullyRecovered_AnyError(es) == es.isRecovering

\* checkFullRecovery, line 240
FullyRecovered(es) == ~HasErrors(es) /\ es.isRecovering

\* checkFullRecovery, lines 239-245
CheckFullRecoveryIn(X) ==
    IF FullyRecovered(X.es) THEN Callback(StopRecoveryIn(X), "onFullRecovery") ELSE X

\* reportApiSuccess, lines 97-107
ReportApiSuccessIn(X) ==
    IF X.es.hasApiError
    THEN CheckFullRecoveryIn(Callback([X EXCEPT !.es.hasApiError = FALSE],
                                      "onRecoverySuccess"))
    ELSE X

\* reportStorageSuccess, lines 112-122
ReportStorageSuccessIn(X) ==
    IF X.es.hasStorageError
    THEN CheckFullRecoveryIn(Callback([X EXCEPT !.es.hasStorageError = FALSE],
                                      "onRecoverySuccess"))
    ELSE X

\* attemptRecovery, lines 193-234, up to its first await: past the maximum
\* the recovery is stopped; otherwise the attempt is counted and the first
\* connection test that applies is awaited
AttemptRecoveryIn(X) ==
    IF X.es.recoveryAttempts >= MaxRecoveryAttempts THEN StopRecoveryIn(X)
    ELSE LET Y == [X EXCEPT !.es.recoveryAttempts = @ + 1] IN
         IF Y.es.hasApiError THEN [Y EXCEPT !.attempts = @ \cup {"api"}]
         ELSE IF Y.es.hasStorageError THEN [Y EXCEPT !.attempts = @ \cup {"storage"}]
         ELSE Y

\* startRecoveryIfNeeded, lines 167-188
StartRecoveryIfNeededIn(X) ==
    IF X.es.isRecovering \/ X.interval # NoTimerId \/ ~HasErrors(X.es) THEN X
    ELSE LET S == Callback([X EXCEPT !.es.isRecovering = TRUE,
                                     !.es.recoveryAttempts = 0], "onRecoveryStart")
             id == CHOOSE n \in 1..(Cardinality(S.timers) + 1) : n \notin S.timers
         IN AttemptRecoveryIn([S EXCEPT !.interval = id, !.timers = @ \cup {id}])

\* reportApiError, lines 56-64
ReportApiErrorIn(X) == StartRecoveryIfNeededIn([X EXCEPT !.es.hasApiError = TRUE])

\* reportStorageError, lines 80-92
ReportStorageErrorIn(X) ==
    IF X.ignore THEN X
    ELSE StartRecoveryIfNeededIn([X EXCEPT !.es.hasStorageError = TRUE])

RecInit ==
    /\ errorState = [hasApiError |-> FALSE, hasStorageError |-> FALSE,
                     recoveryAttempts |-> 0, isRecovering |-> FALSE]
    /\ recoveryInterval = NoTimerId
    /\ recoveryTimers = {}
    /\ ignoreStorageErrors = FALSE
    /\ attempts = {}
    /\ recLast = [op |-> "none", before |-> [hasApiError |-> FALSE,
                                              hasStorageError |-> FALSE,
                                              recoveryAttempts |-> 0,
                                              isRecovering |-> FALSE],
                  calls |-> <<>>]

recFrame == <<regVars, loaderVars, optVars, lodVars, pollVars, statusVars>>

ReportApiError ==
    /\ SetRecovery(ReportApiErrorIn(Recovery), "reportApiError")
    /\ UNCHANGED recFrame

ReportStorageError ==
    /\ SetRecovery(ReportStorageErrorIn(Recovery), "reportStorageError")
    /\ UNCHANGED recFrame

ReportApiSuccess ==
    /\ SetRecovery(ReportApiSuccessIn(Recovery), "reportApiSuccess")
    /\ UNCHANGED recFrame

ReportStorageSuccess ==
    /\ SetRecovery(ReportStorageSuccessIn(Recovery), "reportStorageSuccess")
    /\ UNCHANGED recFrame

\* setIgnoreStorageErrors, lines 69-75
SetIgnoreStorageErrors ==
    \E ignore \in BOOLEAN :
        LET X == [Recovery EXCEPT !.ignore = ignore] IN
        /\ SetRecovery(IF ignore /\ X.es.hasStorageError
                       THEN ReportStorageSuccessIn(X) ELSE X, "setIgnoreStorageErrors")
        /\ UNCHANGED recFrame

StopRecovery ==
    /\ SetRecovery(StopRecoveryIn(Recovery), "stopRecovery")
    /\ UNCHANGED recFrame

\* forceRecovery, lines 141-148
ForceRecovery ==
    /\ SetRecovery(IF errorState.isRecovering THEN Recovery
                   ELSE AttemptRecoveryIn(Recovery), "forceRecovery")
    /\ UNCHANGED recFrame

\* the callback of the interval, lines 183-185
RecoveryTick ==
    /\ recoveryTimers # {}
    /\ SetRecovery(AttemptRecoveryIn(Recovery), "recoveryTick")
    /\ UNCHANGED recFrame

\* attemptRecovery resumed by the API connection test, lines 205-214, and on
\* to the storage test of line 218.  Calls waiting for the same test are
\* not told apart: another one may still be waiting (more).
ApiTestDone ==
    \E connected, more \in BOOLEAN :
        /\ "api" \in attempts
        /\ LET X == [Recovery EXCEPT !.attempts = IF more THEN @ ELSE @ \ {"api"}]
               Y == IF connected THEN ReportApiSuccessIn(X)
                    ELSE Callback(X, "onRecoveryFailed")
           IN SetRecovery(IF Y.es.hasStorageError
                          THEN [Y EXCEPT !.attempts = @ \cup {"storage"}] ELSE Y,
                          "apiTestDone")
        /\ UNCHANGED recFrame

\* attemptRecovery resumed by the storage connection test, lines 220-232
StorageTestDone ==
    \E connected, more \in BOOLEAN :
        /\ "storage" \in attempts
        /\ LET X == [Recovery EXCEPT !.attempts = IF more THEN @ ELSE @ \ {"storage"}]
           IN SetRecovery(IF connected THEN ReportStorageSuccessIn(X)
                          ELSE Callback(X, "onRecoveryFailed"), "storageTestDone")
        /\ UNCHANGED recFrame

\* ------------------------------------------------------------------------
\* Poller (PollingService, part_003 lines 425-685)
\* ------------------------------------------------------------------------
\* bounds: the time runs to MaxClock; at most MaxInFlight requests wait for
\* their response and at most MaxPollTimers timers are pending
MaxClock == 2
MaxInFlight == 2
MaxPollTimers == 3

\* the PollingConfig the service is constructed with (lines 435-442), in units
\* of PollUnit milliseconds: interval, maxRetries, backoffMultiplier,
\* maxBackoffDelay, reducedInterval
PollInterval == 2
MaxRetries == 2
BackoffMultiplier == 2
MaxBackoffDelay == 3
ReducedInterval == 3

Projects == {"p1", "p2"}
NoProject == "null"

RECURSIVE Pow(_, _)
\* Math.pow, line 581
Pow(b, e) == IF e = 0 THEN 1 ELSE b * Pow(b, e - 1)

\* scheduleRetry, lines 579-583
BackoffDelay(n) ==
    Min(PollInterval * Pow(BackoffMultiplier, n - 1), MaxBackoffDelay)

\* The fields of the service as one value, so that the methods compose, with
\* the recovery service it reports to (rec), the requests issued (issued) and
\* the onRetry calls made (retry) on the way.
Poller ==
    [isActive |-> isActive, isTabVisible |-> isTabVisible, projectId |-> projectId,
     currentRetryCount |-> currentRetryCount, intervalId |-> intervalId,
     retryTimeoutId |-> retryTimeoutId, pollTimers |-> pollTimers,
     inFlight |-> inFlight, backoff |-> backoff, rec |-> Recovery,
     issued |-> 0, retry |-> <<>>]

\* the id window.setTimeout returns: one that no pending timer and no handle has
NewPollTimerId(P) ==
    CHOOSE n \in 1..(Cardinality(P.pollTimers) + 3) :
        /\ \A t \in P.pollTimers : t.id # n
        /\ n # P.intervalId
        /\ n # P.retryTimeoutId

\* clearTimers, lines 597-606
ClearTimersIn(P) ==
    [P EXCEPT !.pollTimers = {t \in @ : t.id # P.intervalId /\ t.id # P.retryTimeoutId},
              !.intervalId = NoTimerId,
              !.retryTimeoutId = NoTimerId]

\* mutant of FetchAllowed: a stopped service fetches as well
FetchAllowed_Stopped(project, active) == project # NoProject

\* fetchData, line 508
FetchAllowed(project, active) == project # NoProject /\ active

\* fetchData, lines 507-511: the request is sent for the project of the moment
FetchDataIn(P) ==
    IF FetchAllowed(P.projectId, P.isActive)
    THEN [P EXCEPT !.inFlight = @ \cup {[id |-> NewTimerId(@), project |-> P.projectId]},
                   !.issued = @ + 1]
    ELSE P

\* scheduleNextPoll, lines 549-567, at time t
ScheduleNextPollIn(P, useExtendedInterval, t) ==
    IF ~P.isActive THEN P
    ELSE LET C == ClearTimersIn(P)
             interval == IF useExtendedInterval THEN MaxBackoffDelay
                         ELSE IF ~P.isTabVisible THEN ReducedInterval
                         ELSE PollInterval
             id == NewPollTimerId(C)
         IN [C EXCEPT !.intervalId = id,
                      !.pollTimers = @ \cup {[id |-> id, kind |-> "poll",
                                              due |-> t + interval]}]

\* scheduleRetry, lines 572-592, at time t
ScheduleRetryIn(P, t) ==
    IF ~P.isActive THEN P
    ELSE LET n == P.currentRetryCount + 1
             backoffDelay == BackoffDelay(n)
             id == NewPollTimerId(P)
         IN [P EXCEPT !.currentRetryCount = n,
                      !.retry = Append(@, [attempt |-> n, delay |-> backoffDelay]),
                      !.retryTimeoutId = id,
                      !.pollTimers = @ \cup {[id |-> id, kind |-> "retry",
                                              due |-> t + backoffDelay]},
                      !.backoff = [pending |-> TRUE, timer |-> id,
                                   due |-> t + backoffDelay]]

NoBackoff == [pending |-> FALSE]

\* an event other than a timer of the service: a retry that was pending is no
\* longer looked at
Interrupted(P) == [P EXCEPT !.backoff = NoBackoff]

SetPoller(P, op, streak, response) ==
    /\ Cardinality(P.pollTimers) <= MaxPollTimers
    /\ isActive' = P.isActive
    /\ isTabVisible' = P.isTabVisible
    /\ projectId' = P.projectId
    /\ currentRetryCount' = P.currentRetryCount
    /\ intervalId' = P.intervalId
    /\ retryTimeoutId' = P.retryTimeoutId
    /\ pollTimers' = P.pollTimers
    /\ inFlight' = P.inFlight
    /\ backoff' = P.backoff
    /\ failStreak' = streak
    /\ pollLast' = [op |-> op, issued |-> P.issued, retry |-> P.retry,
                    response |-> response]
    /\ SetRecovery(P.rec, op)

NoResponse == [delivered |-> FALSE]

PollInit ==
    /\ isActive = FALSE
    /\ isTabVisible = TRUE
    /\ projectId = NoProject
    /\ currentRetryCount = 0
    /\ intervalId = NoTimerId
    /\ retryTimeoutId = NoTimerId
    /\ pollTimers = {}
    /\ inFlight = {}
    /\ clock = 0
    /\ backoff = NoBackoff
    /\ failStreak = 0
    /\ pollLast = [op |-> "none", issued |-> 0, retry |-> <<>>, response |-> NoResponse]

pollFrame == <<regVars, loaderVars, optVars, lodVars, statusVars, clock>>

\* a request can be sent
CanIssue == Cardinality(inFlight) < MaxInFlight

\* start, lines 458-469
PollStart ==
    \E p \in Projects :
        /\ CanIssue
        /\ SetPoller(ScheduleNextPollIn(
                         FetchDataIn([Interrupted(Poller) EXCEPT !.projectId = p,
                                                                 !.isActive = TRUE,
                                                                 !.currentRetryCount = 0]),
                         FALSE, clock),
                     "start", 0, NoResponse)
        /\ UNCHANGED pollFrame

\* stop, lines 474-477
PollStop ==
    /\ SetPoller(ClearTimersIn([Interrupted(Poller) EXCEPT !.isActive = FALSE]),
                 "stop", failStreak, NoResponse)
    /\ UNCHANGED pollFrame

\* updateProject, lines 482-493
UpdateProject ==
    \E p \in Projects :
        /\ CanIssue
        /\ IF projectId # p
           THEN LET P == [Interrupted(Poller) EXCEPT !.projectId = p,
                                                     !.currentRetryCount = 0]
                IN SetPoller(IF P.isActive
                             THEN ScheduleNextPollIn(FetchDataIn(ClearTimersIn(P)),
                                                     FALSE, clock)
                             ELSE P,
                             "updateProject", 0, NoResponse)
           ELSE SetPoller(Poller, "updateProject", failStreak, NoResponse)
        /\ UNCHANGED pollFrame

\* refresh, lines 498-502, up to the await of line 511
Refresh ==
    /\ CanIssue
    /\ SetPoller(FetchDataIn(Interrupted(Poller)), "refresh", failStreak, NoResponse)
    /\ UNCHANGED pollFrame

\* fetchData resumed by the response, lines 511-524: the data go to onData,
\* the retry count is reset and the success is reported
FetchSucceeds ==
    \E f \in inFlight :
        /\ SetPoller([Poller EXCEPT !.inFlight = @ \ {f},
                                    !.currentRetryCount = 0,
                                    !.rec = ReportApiSuccessIn(@)],
                     "fetchSucceeded", 0,
                     [delivered |-> TRUE, project |-> f.project, current |-> projectId,
                      active |-> isActive, retryCount |-> currentRetryCount])
        /\ UNCHANGED pollFrame

\* fetchData resumed by a failure, lines 525-543
FetchFails ==
    \E f \in inFlight :
        LET P == [Poller EXCEPT !.inFlight = @ \ {f}, !.rec = ReportApiErrorIn(@)] IN
        /\ SetPoller(IF P.currentRetryCount < MaxRetries
                     THEN ScheduleRetryIn(P, clock)
                     ELSE ScheduleNextPollIn([P EXCEPT !.currentRetryCount = 0],
                                             TRUE, clock),
                     "fetchFailed", Min(failStreak + 1, MaxRetries + 1), NoResponse)
        /\ UNCHANGED pollFrame

\* the callback of the poll timer, lines 564-567
PollTimerFires ==
    \E t \in pollTimers :
        /\ t.kind = "poll"
        /\ t.due <= clock
        /\ CanIssue
        /\ SetPoller(ScheduleNextPollIn(
                         FetchDataIn([Poller EXCEPT !.pollTimers = @ \ {t}]),
                         FALSE, clock),
                     "pollTimer", failStreak, NoResponse)
        /\ UNCHANGED pollFrame

\* the callback of a retry timer, lines 586-592
RetryTimerFires ==
    \E t \in pollTimers :
        /\ t.kind = "retry"
        /\ t.due <= clock
        /\ CanIssue
        /\ LET P == FetchDataIn([Poller EXCEPT
                                    !.pollTimers = @ \ {t},
                                    !.backoff = IF @.pending /\ @.timer = t.id
                                                THEN NoBackoff ELSE @])
           IN SetPoller(IF P.currentRetryCount = 0
                        THEN ScheduleNextPollIn(P, FALSE, clock) ELSE P,
                        "retryTimer", failStreak, NoResponse)
        /\ UNCHANGED pollFrame

\* visibilitychange, focus and blur, lines 612-658
VisibilityChange ==
    \E hidden \in BOOLEAN :
        /\ CanIssue
        /\ isTabVisible # ~hidden
        /\ LET P == [Interrupted(Poller) EXCEPT !.isTabVisible = ~hidden] IN
           SetPoller(IF P.isActive
                     THEN LET C == ClearTimersIn(P) IN
                          ScheduleNextPollIn(
                              IF P.isTabVisible /\ P.currentRetryCount > 0
                              THEN FetchDataIn(C) ELSE C,
                              FALSE, clock)
                     ELSE P,
                     "visibility", failStreak, NoResponse)
        /\ UNCHANGED pollFrame

\* the online event, lines 661-668
Online ==
    /\ CanIssue
    /\ isActive /\ currentRetryCount > 0
    /\ SetPoller(FetchDataIn(ClearTimersIn(Interrupted(Poller))),
                 "online", failStreak, NoResponse)
    /\ UNCHANGED pollFrame

\* time passes; a timer fires when it is due
ClockTick ==
    /\ clock < MaxClock
    /\ \A t \in pollTimers : t.due > clock
    /\ clock' = clock + 1
    /\ UNCHANGED <<regVars, loaderVars, optVars, lodVars, statusVars, recVars, isActive,
                   isTabVisible, projectId, currentRetryCount, intervalId,
                   retryTimeoutId, pollTimers, inFlight, backoff, failStreak, pollLast>>

\* ------------------------------------------------------------------------
\* Status updates (StatusUpdateService, statusUpdateService.ts lines 21-290)
\* ------------------------------------------------------------------------
\* bound: at most MaxStatusRuns calls are suspended in their batches
MaxStatusRuns == 2

\* the panel data of a call, by version; two versions differ in some status
DataVersions == {"v1", "v2"}
NoData == "empty"

\* detectChanges, lines 36-78: is there a change
ChangesDetected(previous, data) == previous # data

\* updatePanelStatuses, line 88
UpdateSkipped(inProgress, mappings) == inProgress

StatusInit ==
    /\ previousStatusMap = NoData
    /\ meshPanelMappings = FALSE
    /\ updateInProgress = FALSE
    /\ statusRuns = {}
    /\ statusLast = [op |-> "none"]

statusFrame == <<regVars, loaderVars, optVars, lodVars, pollVars, recVars>>

\* setMeshPanelMappings, lines 29-31
SetMeshPanelMappings ==
    \E mappings \in BOOLEAN :
        /\ meshPanelMappings' = mappings
        /\ statusLast' = [op |-> "setMeshPanelMappings"]
        /\ UNCHANGED <<statusFrame, previousStatusMap, updateInProgress, statusRuns>>

\* updatePanelStatuses, lines 84-145, up to its first suspension.  A call
\* made while the flag is set returns at line 90.  Without a change for a
\* mapped mesh the tracked map is renewed and the call ends (lines 106, 123).
\* Otherwise the material service is called for the first batch and the call
\* is suspended (line 129 or 131), unless the material service throws (throws),
\* which ends the call through the finally of line 142.
UpdatePanelStatuses ==
    \E data \in DataVersions, throws \in BOOLEAN :
        LET skipped == UpdateSkipped(updateInProgress, meshPanelMappings)
            meshChanges == ChangesDetected(previousStatusMap, data) /\ meshPanelMappings
            suspended == ~skipped /\ meshChanges /\ ~throws
        IN
        /\ Cardinality(statusRuns) < MaxStatusRuns
        /\ throws => (~skipped /\ meshChanges)
        /\ updateInProgress' = IF skipped THEN updateInProgress ELSE suspended
        /\ previousStatusMap' = IF ~skipped /\ ~meshChanges THEN data
                                ELSE previousStatusMap
        /\ statusRuns' = IF suspended
                         THEN statusRuns \cup {[id |-> NewTimerId(statusRuns),
                                                data |-> data]}
                         ELSE statusRuns
        /\ statusLast' = [op |-> "updatePanelStatuses",
                          running |-> Cardinality(statusRuns),
                          materialCalled |-> ~skipped /\ meshChanges,
                          mapChanged |-> previousStatusMap' # previousStatusMap]
        /\ UNCHANGED <<statusFrame, meshPanelMappings>>

\* updatePanelStatuses resumed after its batches, lines 134-144: the tracked
\* map is renewed unless the update threw, and the finally clears the flag
UpdateReturns ==
    \E run \in statusRuns, threw \in BOOLEAN :
        /\ statusRuns' = statusRuns \ {run}
        /\ previousStatusMap' = IF threw THEN previousStatusMap ELSE run.data
        /\ updateInProgress' = FALSE
        /\ statusLast' = [op |-> "updateReturns"]
        /\ UNCHANGED <<statusFrame, meshPanelMappings>>

\* StatusUpdateService.reset, lines 278-282
StatusReset ==
    /\ previousStatusMap' = NoData
    /\ meshPanelMappings' = FALSE
    /\ updateInProgress' = FALSE
    /\ statusLast' = [op |-> "reset"]
    /\ UNCHANGED <<statusFrame, statusRuns>>

vars == <<regVars, loaderVars, optVars, svcVars>>

\* The services as constructed: the singletons resourceManager, renderOptimizer
\* and performanceMonitor, and a new ProgressiveLoaderService.
Init == RegInit /\ LoaderInit /\ OptInit /\ LodInit /\ PollInit /\ StatusInit /\ RecInit

RegNext ==
    \/ Tick
    \/ RegisterResource
    \/ RegisterGenerated
    \/ AddReference
    \/ RemoveReference
    \/ TouchResource
    \/ DisposeResource
    \/ ProcessDisposalQueue
    \/ Cleanup
    \/ EnableAutoCleanup
    \/ DisableAutoCleanup
    \/ AutoCleanupTick
    \/ DisposeAll
    \/ DisposeService

RegistrySpec == Init /\ [][RegNext]_vars

LoaderNext ==
    \/ UpdateOptions
    \/ LoadModelProgressively
    \/ ChunkAndEnqueue
    \/ LoopTest
    \/ StartChunk
    \/ ChunkTimer
    \/ ChunkLoadedReturn
    \/ WaitForChunkCompletion
    \/ PollTimer
    \/ ProgressReturn

LoaderSpec == Init /\ [][LoaderNext]_vars

\* Timers that are due fire, and synchronous code and microtasks run on.
LoaderFairSpec ==
    /\ LoaderSpec
    /\ WF_vars(ChunkAndEnqueue)
    /\ WF_vars(LoopTest)
    /\ WF_vars(StartChunk)
    /\ WF_vars(ChunkTimer)
    /\ WF_vars(ChunkLoadedReturn)
    /\ WF_vars(WaitForChunkCompletion)
    /\ WF_vars(PollTimer)
    /\ WF_vars(ProgressReturn)

\* The per-frame loop of the viewer (part_008 lines 175-184), the resets and a
\* load: the options are those a viewer sets before a load.
FrameOptionValues ==
    [maxConcurrentChunks : {1, 3}, distanceBasedLoading : BOOLEAN]

UpdateFrameOptions == UpdateOptionsIn(FrameOptionValues)

FrameNext ==
    \/ UpdateFrameOptions
    \/ LoadModelProgressively
    \/ ChunkAndEnqueue
    \/ LoopTest
    \/ StartChunk
    \/ ChunkTimer
    \/ ChunkLoadedReturn
    \/ WaitForChunkCompletion
    \/ PollTimer
    \/ ProgressReturn
    \/ Reset
    \/ InitializeLoader
    \/ InitializeOptimizer
    \/ PerformFrustumCulling
    \/ UpdateDistanceBasedLoading
    \/ OptimizerReset

FrameSpec == Init /\ [][FrameNext]_vars

\* A load with the registry's reclamation running between its tasks.
ActivationOptionValues == [maxConcurrentChunks : {1, 3}]

UpdateActivationOptions == UpdateOptionsIn(ActivationOptionValues)

ActivationNext ==
    \/ UpdateActivationOptions
    \/ LoadModelProgressively
    \/ ChunkAndEnqueue
    \/ LoopTest
    \/ StartChunk
    \/ ChunkTimer
    \/ ChunkLoadedReturn
    \/ WaitForChunkCompletion
    \/ PollTimer
    \/ ProgressReturn
    \/ (EventLoopFree /\ Tick)
    \/ (EventLoopFree /\ ProcessDisposalQueue)
    \/ (EventLoopFree /\ Cleanup)
    \/ (EventLoopFree /\ EnableAutoCleanup)
    \/ (EventLoopFree /\ AutoCleanupTick)

ActivationSpec == Init /\ [][ActivationNext]_vars

\* Several loads on one ProgressiveLoaderService.
MaxReloads == 2
ReloadScenes == {q \in Scenes : Len(q) <= 2}

ReloadModel == LoadModel(ReloadScenes, MaxReloads)

ReloadNext ==
    \/ UpdateOptions
    \/ ReloadModel
    \/ ChunkAndEnqueue
    \/ LoopTest
    \/ StartChunk
    \/ ChunkTimer
    \/ ChunkLoadedReturn
    \/ WaitForChunkCompletion
    \/ PollTimer
    \/ ProgressReturn

ReloadSpec == Init /\ [][ReloadNext]_vars

\* The quality controller and the monitor it samples.
QualityNext ==
    \/ InitializeOptimizer
    \/ DevicePixelRatioChange
    \/ UpdateSettings
    \/ AdaptiveOptimization
    \/ CollectMetrics
    \/ MonitorReset
    \/ OptimizerReset

QualitySpec == Init /\ [][QualityNext]_vars

\* The controller with its level-of-detail objects, from initialize to shutdown.
LodNext ==
    \/ InitializeOptimizer
    \/ CollectMetrics
    \/ CreateLODForMesh
    \/ OptimizerReset
    \/ OptimizerDispose

LodSpec == Init /\ [][LodNext]_vars

\* Geometry simplification on its own.
DecimationNext == SimplifyGeometry

DecimationSpec == Init /\ [][DecimationNext]_vars

\* The poller, its timers and the responses of the status API.
PollNext ==
    \/ PollStart
    \/ PollStop
    \/ UpdateProject
    \/ Refresh
    \/ FetchSucceeds
    \/ FetchFails
    \/ PollTimerFires
    \/ RetryTimerFires
    \/ VisibilityChange
    \/ Online
    \/ ClockTick

PollSpec == Init /\ [][PollNext]_vars

\* Status updates and resets of the status-update service.
StatusNext ==
    \/ SetMeshPanelMappings
    \/ UpdatePanelStatuses
    \/ UpdateReturns
    \/ StatusReset

StatusSpec == Init /\ [][StatusNext]_vars

\* The recovery service, its interval and its connection tests.
RecoveryNext ==
    \/ ReportApiError
    \/ ReportStorageError
    \/ ReportApiSuccess
    \/ ReportStorageSuccess
    \/ SetIgnoreStorageErrors
    \/ StopRecovery
    \/ ForceRecovery
    \/ RecoveryTick
    \/ ApiTestDone
    \/ StorageTestDone

RecoverySpec == Init /\ [][RecoveryNext]_vars

\* ------------------------------------------------------------------------
\* Claims about the registry, checked under RegistrySpec
\* ------------------------------------------------------------------------
ZeroRefIds == {id \in DOMAIN resources : resources[id].refCount = 0}

\* C1 (as stated): the disposal queue is exactly the set of tracked ids whose
\* refCount is 0.  addReference and registerResource leave a queued id in the
\* queue, so the code reaches states where this fails.
C1_QueueIsZeroRefSet == disposalQueue = ZeroRefIds

ForcedOps == {"dispose", "cleanup", "autoCleanupTick", "disposeAll", "serviceDispose"}

\* C2: every refCount stays >= 0; a step that removes a resource holding
\* references is a forced disposal; disposeResource(id) without force on a
\* resource holding references returns false and changes nothing.
C2_RefCountSafety ==
    [][/\ \A id \in DOMAIN resources' : resources'[id].refCount >= 0
       /\ \A id \in (DOMAIN resources) \ (DOMAIN resources') :
              resources[id].refCount > 0 => (last'.op \in ForcedOps /\ last'.force)
       /\ (/\ last'.op = "dispose"
           /\ ~last'.force
           /\ last'.id \in DOMAIN resources
           /\ resources[last'.id].refCount > 0)
          => (/\ last'.ret = FALSE
              /\ resources' = resources
              /\ resourceObjects' = resourceObjects
              /\ disposalQueue' = disposalQueue)
      ]_vars

\* C2 witness: disposeResource without force has just been refused for a
\* resource that holds references and is still tracked.
C2_Witness ==
    /\ last.op = "dispose"
    /\ ~last.force
    /\ last.ret = FALSE
    /\ last.id \in DOMAIN resources
    /\ resources[last.id].refCount > 0

\* C3 (as stated): an id for which disposeResource returned true is never
\* tracked again.  registerResource with a caller-supplied id binds it again.
C3_NoUseAfterDispose == disposed \cap DOMAIN resources = {}

\* C4 (as stated): registerResource with an id that is already tracked leaves
\* the existing record and its object as they were.  The code overwrites both.
C4_DuplicateRegistrationRejected ==
    [][(last'.op = "register" /\ last'.id \in DOMAIN resources)
          => (/\ resources'[last'.id] = resources[last'.id]
              /\ resourceObjects'[last'.id] = resourceObjects[last'.id])
      ]_vars

\* C5 (as stated): processDisposalQueue disposes exactly the queued ids whose
\* refCount is 0, returns their number, and no skipped id stays in the queue.
\* The code leaves a skipped id (refCount > 0) in the queue.
C5_ProcessDisposalQueue ==
    [][last'.op = "processDisposalQueue"
          => LET eligible == disposalQueue \cap ZeroRefIds IN
             /\ DOMAIN resources' = (DOMAIN resources) \ eligible
             /\ last'.ret = Cardinality(eligible)
             /\ disposalQueue' = {}
      ]_vars

Stale(id, maxAge) == now - resources[id].lastUsed > maxAge

C8_LoadCompletes ==
    (pc = "loop" /\ options.maxConcurrentChunks >= 1)
        ~> (pc = "done" /\ loadingQueue = <<>> /\ activeLoads = {})

InQueue(c) == \E i \in DOMAIN loadingQueue : loadingQueue[i] = c

CollectionsHolding(c) ==
    (IF InQueue(c) THEN 1 ELSE 0) + (IF c \in activeLoads THEN 1 ELSE 0)
        + (IF c \in loadedChunks THEN 1 ELSE 0)

\* C9 (as stated): every chunk created for the current load is in exactly one
\* of the queue, the active set and the completed map.  Inside onChunkLoaded
\* the chunk is in two of them, and a chunk whose activation threw is in none.
C9_ChunkPartition ==
    \A c \in DOMAIN chunks : chunks[c].load = loadCount => CollectionsHolding(c) = 1

\* C10: the chunks of a load are started in non-decreasing priority order, ties
\* in creation order, and no started chunk has a priority after that of a chunk
\* of the same load that is still queued.
C10_PriorityOrder ==
    /\ \A i, j \in DOMAIN startOrder :
          (i < j /\ chunks[startOrder[i]].load = chunks[startOrder[j]].load)
             => /\ chunks[startOrder[i]].priority <= chunks[startOrder[j]].priority
                /\ chunks[startOrder[i]].priority = chunks[startOrder[j]].priority
                      => startOrder[i] < startOrder[j]
    /\ \A i \in DOMAIN startOrder, k \in DOMAIN loadingQueue :
          chunks[startOrder[i]].load = chunks[loadingQueue[k]].load
             => chunks[startOrder[i]].priority <= chunks[loadingQueue[k]].priority

\* C10 witness: a Critical chunk was started first, then two chunks of one
\* priority class that the scene listed in the order 3, 2.
C10_Witness ==
    /\ Len(startOrder) = 3
    /\ chunks[startOrder[1]].priority = CRITICAL
    /\ chunks[startOrder[2]].priority = HIGH
    /\ chunks[startOrder[3]].priority = HIGH
    /\ chunks[startOrder[2]].meshes = <<3>>
    /\ chunks[startOrder[3]].meshes = <<2>>

RECURSIVE Flatten(_)
Flatten(qs) == IF qs = <<>> THEN <<>> ELSE Head(qs) \o Flatten(Tail(qs))

RECURSIVE SumOfSizes(_)
SumOfSizes(ms) == IF ms = <<>> THEN 0 ELSE EstimateMeshSize(Head(ms)) + SumOfSizes(Tail(ms))

\* the members of the chunks of ids, by ascending id, for the chunks of priority p
MembersInOrder(cs, ids, p) ==
    LET RECURSIVE From(_)
        From(c) == IF c \notin ids THEN <<>>
                   ELSE (IF cs[c].priority = p THEN <<cs[c].meshes>> ELSE <<>>) \o From(c + 1)
    IN IF ids = {} THEN <<>>
       ELSE Flatten(From(CHOOSE c \in ids : \A d \in ids : c <= d))

\* C11: the chunks made from a scene hold, class by class, every mesh of the
\* class exactly once and in traversal order; a chunk's estimatedSize is the sum
\* of its members' sizes and is at most chunkSizeLimit, unless the chunk is a
\* single mesh that alone exceeds the limit; such a mesh is never grouped.
C11_ChunkSizeBound ==
    [][(pc = "loaded" /\ pc' = "loop")
          => LET created == (DOMAIN chunks') \ (DOMAIN chunks)
                 limit == options.chunkSizeLimit
             IN /\ \A p \in {CRITICAL, HIGH, MEDIUM, LOW} :
                      MembersInOrder(chunks', created, p)
                          = SelectSeq(modelResult, LAMBDA m : DetermineMeshPriority(m) = p)
                /\ \A c \in created :
                      /\ Len(chunks'[c].meshes) > 0
                      /\ chunks'[c].estimatedSize = SumOfSizes(chunks'[c].meshes)
                      /\ \/ chunks'[c].estimatedSize <= limit
                         \/ Len(chunks'[c].meshes) = 1
                      /\ \A i \in DOMAIN chunks'[c].meshes :
                            EstimateMeshSize(chunks'[c].meshes[i]) > limit
                               => Len(chunks'[c].meshes) = 1
      ]_vars

\* C11 witness: under a limit of 2048 the High class of a scene was chunked into
\* a chunk that fills the limit exactly and a single mesh that exceeds it.
C11_Witness ==
    /\ pc = "loop"
    /\ options.chunkSizeLimit = 2048
    /\ \E c, d \in DOMAIN chunks :
          /\ chunks[c].load = loadCount /\ chunks[d].load = loadCount
          /\ chunks[c].priority = HIGH /\ chunks[d].priority = HIGH
          /\ chunks[c].estimatedSize = 2048
          /\ chunks[d].estimatedSize > 2048
          /\ Len(chunks[d].meshes) = 1

\* the chunks of the load in progress, and the priorities in the order started
CurrentChunks == {c \in DOMAIN chunks : chunks[c].load = loadCount}
StartedPriorities ==
    LET mine == SelectSeq(startOrder, LAMBDA c : chunks[c].load = loadCount)
    IN [i \in DOMAIN mine |-> chunks[mine[i]].priority]
IsPrefix(a, b) == Len(a) <= Len(b) /\ \A i \in DOMAIN a : a[i] = b[i]

\* the scene of the scenario: foundation-a, panel-wall-1 and trim-fixture-2
\* (meshes 1, 2 and 4 of the catalog), chunked and queued
ScenarioQueued ==
    /\ pc \notin {"idle", "loaded"}
    /\ UNION {Range(chunks[c].meshes) : c \in CurrentChunks} = {1, 2, 4}

\* the chunks of the scenario are three, of priorities first, second and third for
\* foundation-a, panel-wall-1 and trim-fixture-2, and are started in that order
ScenarioClassified(first, second, third) ==
    /\ Cardinality(CurrentChunks) = 3
    /\ \A c \in CurrentChunks :
          /\ 1 \in Range(chunks[c].meshes) => chunks[c].priority = first
          /\ 2 \in Range(chunks[c].meshes) => chunks[c].priority = second
          /\ 4 \in Range(chunks[c].meshes) => chunks[c].priority = third
    /\ IsPrefix(StartedPriorities, <<first, second, third>>)

\* the class a name stands for, by the table of the design (section 4.2, 1a)
NameHints ==
    [structure |-> CRITICAL, foundation |-> CRITICAL, core |-> CRITICAL,
     panel |-> HIGH, facade |-> HIGH, wall |-> HIGH,
     detail |-> MEDIUM, trim |-> MEDIUM, fixture |-> MEDIUM]
HintsOf(m) == {NameHints[w] : w \in {x \in DOMAIN NameHints : Includes(MeshCatalog[m].name, x)}}

\* a mesh whose name carries a hint is in a chunk of the first class hinted at,
\* whatever its triangle count
NameTakesPrecedence ==
    \A c \in DOMAIN chunks : \A m \in Range(chunks[c].meshes) :
        HintsOf(m) # {} => \A h \in HintsOf(m) : chunks[c].priority <= h

\* C12 (as stated): the scenario yields three chunks classified Critical, High
\* and Low, started in that order.  "trim-fixture-2" is classified Medium.
C12_ScenarioAsStated ==
    /\ ScenarioQueued => ScenarioClassified(CRITICAL, HIGH, LOW)
    /\ NameTakesPrecedence

\* C12 (amended): the scenario yields three chunks classified Critical, High
\* and Medium, started in that order; a name hint decides the class whatever
\* the triangle count.
C12_ScenarioAmended ==
    /\ ScenarioQueued => ScenarioClassified(CRITICAL, HIGH, MEDIUM)
    /\ NameTakesPrecedence
    /\ \A c \in DOMAIN chunks : \A m \in Range(chunks[c].meshes) :
          HintsOf(m) # {} => \E h \in HintsOf(m) : chunks[c].priority = h

\* C12 witness: the three chunks of the scenario have all been started.
C12_Witness ==
    /\ ScenarioQueued
    /\ StartedPriorities = <<CRITICAL, HIGH, MEDIUM>>

\* ------------------------------------------------------------------------
\* Claims about the per-frame operations, checked under FrameSpec
\* ------------------------------------------------------------------------
\* C13 (as stated): while a chunk's activation waits on its stagger delay none
\* of its members is visible, and when the activation completes all of them
\* are.  performFrustumCulling and the optimizer's reset write mesh.visible on
\* every mesh of the scene, the members of a waiting chunk included.
C13_VisibilityAtomic ==
    /\ \A c \in delayed : \A m \in Range(chunks[c].meshes) : ~visible[m]
    /\ \A c \in inCallback : \A m \in Range(chunks[c].meshes) : visible[m]

\* ------------------------------------------------------------------------
\* Claims about reclamation during a load, checked under ActivationSpec
\* ------------------------------------------------------------------------
\* the ids registered by the activations that wait on their stagger delay
InFlightIds == UNION {Range(ChunkResourceIds(chunks[c].meshes)) : c \in delayed}

\* C14: a resource registered by an activation that has not yet marked its
\* meshes visible stays tracked, with its reference, through every
\* processDisposalQueue, cleanup without force and auto-cleanup tick without
\* force; only a forced disposal removes it.
C14_NoDisposalDuringActivation ==
    /\ [][\A id \in InFlightIds \cap DOMAIN resources :
             \/ /\ id \in DOMAIN resources'
                /\ resources'[id].refCount >= 1
             \/ last'.op \in ForcedOps /\ last'.force
         ]_vars
    /\ [][\A c \in delayed' \ delayed :
             \A id \in Range(ChunkResourceIds(chunks[c].meshes)) :
                 id \in DOMAIN resources' /\ resources'[id].refCount = 1
         ]_vars

\* C14 witness: an auto-cleanup tick without force has run and disposed nothing
\* while an activation waits on its delay with resources that are stale for
\* the tick's maxAge; all of them are still tracked.
C14_Witness ==
    /\ last.op = "autoCleanupTick"
    /\ ~last.force
    /\ last.ret = 0
    /\ InFlightIds # {}
    /\ InFlightIds \subseteq DOMAIN resources
    /\ \E id \in InFlightIds : now - resources[id].lastUsed > autoCleanupInterval.options.maxAge

\* ------------------------------------------------------------------------
\* Further claims about the scheduler
\* ------------------------------------------------------------------------
\* the chunks whose activation threw: started, not waiting, not loaded
FailedChunks == {c \in Range(startOrder) : ~chunks[c].loaded /\ c \notin delayed}

\* a failed chunk is neither active nor completed
FailedChunkIsolated == \A c \in FailedChunks : c \notin activeLoads /\ c \notin loadedChunks

\* C15 (as stated): a chunk whose activation threw leaves the active set, stays
\* loaded = false and out of the completed map, and the load goes on to start
\* every other chunk and to end.  The load does not end when a later chunk
\* waits on its stagger timer with the queue empty (the loop of C8).
C15_FailureIsolated ==
    /\ []FailedChunkIsolated
    /\ (FailedChunks \cap CurrentChunks # {})
          ~> (/\ pc = "done"
              /\ loadingQueue = <<>>
              /\ activeLoads = {}
              /\ CurrentChunks \subseteq Range(startOrder))

\* C16 (as stated): every onProgress(loadedCount, totalChunks) call has
\* loadedCount <= totalChunks, the counts do not decrease within a load, and
\* when a load in which no chunk failed has ended the last count reported is
\* totalChunks.  loadedCount is loadedChunks.size, which still counts the
\* chunks of the loads before.
C16_ProgressReports ==
    /\ [](pc = "progress" => loadedCount <= totalChunks)
    /\ []((pc = "done" /\ totalChunks > 0 /\ FailedChunks \cap CurrentChunks = {})
             => loadedCount = totalChunks)
    /\ [][pc # "loaded" => loadedCount' >= loadedCount]_vars

\* ------------------------------------------------------------------------
\* Further claims about the per-frame operations and the resets (FrameSpec)
\* ------------------------------------------------------------------------
\* C17: reset empties the queue, the active set and the completed map and
\* leaves the registry as it was: the records with their refCounts, the
\* objects and the disposal queue.
C17_ResetRegistryNeutral ==
    [][Reset => (/\ loadingQueue' = <<>>
                 /\ activeLoads' = {}
                 /\ loadedChunks' = {}
                 /\ resources' = resources
                 /\ resourceObjects' = resourceObjects
                 /\ disposalQueue' = disposalQueue)
      ]_vars

\* C17 witness: the loader was reset while an activation waited on its delay;
\* the three collections are empty and the resources of the activation and of
\* the chunks completed before are all tracked with their reference.
C17_Witness ==
    /\ loadingQueue = <<>>
    /\ activeLoads = {}
    /\ loadedChunks = {}
    /\ delayed # {}
    /\ \E c \in DOMAIN chunks : chunks[c].loaded
    /\ \A c \in delayed \cup {d \in DOMAIN chunks : chunks[d].loaded} :
          \A id \in Range(ChunkResourceIds(chunks[c].meshes)) :
              id \in DOMAIN resources /\ resources[id].refCount = 1

\* the rule of the design: hidden iff (Medium and d > 100) or (Low and d > 50)
HiddenByRule(priority, d) ==
    (priority = MEDIUM /\ d > 100) \/ (priority = LOW /\ d > 50)

\* C18: a distance update made with distance-based loading enabled and a
\* camera set leaves every member of a completed chunk hidden iff its chunk is
\* Medium and it is farther than 100, or Low and farther than 50, and visible
\* otherwise; it changes no visibility flag of any other mesh and nothing in
\* the registry.
C18_DistanceCulling ==
    [][\A cameraPosition \in CameraPositions :
          (UpdateDistanceAt(cameraPosition) /\ options.distanceBasedLoading
              /\ camera # NoCamera)
             => /\ \A c \in loadedChunks : \A m \in Range(chunks[c].meshes) :
                      visible'[m] = ~HiddenByRule(chunks[c].priority,
                                                  DistanceTo(cameraPosition, m))
                /\ \A m \in MeshIds \ LoadedMeshes : visible'[m] = visible[m]
                /\ resources' = resources
                /\ resourceObjects' = resourceObjects
                /\ disposalQueue' = disposalQueue
      ]_vars

\* C18 witness: the load has ended with a Medium and a Low chunk completed; the
\* Low member (roof, 99 away from a camera at 100) is hidden and the Medium
\* member (trim-fixture-2, 100 away) is visible.
C18_Witness ==
    /\ pc = "done"
    /\ options.distanceBasedLoading
    /\ camera # NoCamera
    /\ \E c, d \in loadedChunks :
          /\ chunks[c].priority = MEDIUM /\ chunks[c].meshes = <<4>> /\ visible[4]
          /\ chunks[d].priority = LOW /\ chunks[d].meshes = <<5>> /\ ~visible[5]

\* ------------------------------------------------------------------------
\* Claims about the quality controller (QualitySpec)
\* ------------------------------------------------------------------------
\* an evaluation that read a sample with adaptive quality enabled
Evaluated(e) == e.sampled /\ e.adaptiveQuality /\ e.before.set

\* the sample of entry e against the band [0.8 x target, 1.2 x target]
BelowBand(e) == Evaluated(e) /\ 10 * e.fps < 8 * e.targetFPS
AboveBand(e) == Evaluated(e) /\ 10 * e.fps > 12 * e.targetFPS

\* the quality state of a renderer: Nominal with shadows on, Reduced with
\* shadows off
Nominal(r) == r.shadowMapEnabled
Reduced(r) == ~r.shadowMapEnabled

\* the number of entries lo..hi of the log in which the state goes from
\* Nominal to Reduced (down), or from Reduced to Nominal (up)
RECURSIVE Transitions(_, _, _, _)
Transitions(log, lo, hi, down) ==
    IF lo > hi THEN 0
    ELSE (IF (down /\ Nominal(log[lo].before) /\ Reduced(log[lo].after))
              \/ (~down /\ Reduced(log[lo].before) /\ Nominal(log[lo].after))
          THEN 1 ELSE 0) + Transitions(log, lo + 1, hi, down)

\* entries lo..hi form a series that drops below the band from Nominal and then
\* rises above it: below or inside the band up to some k, with entry lo below,
\* then inside or above, with at least one above
DropsThenRises(log, lo, hi) ==
    /\ BelowBand(log[lo])
    /\ Nominal(log[lo].before)
    /\ \E k \in lo..(hi - 1) :
          /\ \A i \in lo..k : ~AboveBand(log[i])
          /\ \A i \in (k + 1)..hi : ~BelowBand(log[i])
          /\ \E i \in (k + 1)..hi : AboveBand(log[i])

\* C19: an evaluation changes pixel ratio or shadow flag only on a sample
\* below 0.8 x target or above 1.2 x target; below, shadows go off and the
\* pixel ratio goes down, not under 1; above, shadows go on and the pixel
\* ratio goes up, not over the cap; a series that drops below the band and
\* then rises above it makes exactly one Nominal->Reduced and exactly one
\* Reduced->Nominal transition.
C19_QualityHysteresis ==
    /\ \A i \in 1..Len(qualityLog) :
          LET e == qualityLog[i] IN
          /\ i > 1 => e.before = qualityLog[i - 1].after
          /\ (~BelowBand(e) /\ ~AboveBand(e)) => e.after = e.before
          /\ BelowBand(e) =>
                /\ Reduced(e.after)
                /\ e.after.pixelRatio <= e.before.pixelRatio
                /\ e.before.pixelRatio > PixelRatioOne =>
                      /\ e.after.pixelRatio < e.before.pixelRatio
                      /\ e.after.pixelRatio >= PixelRatioOne
          /\ AboveBand(e) =>
                /\ Nominal(e.after)
                /\ e.after.pixelRatio >= e.before.pixelRatio
                /\ e.before.pixelRatio < e.cap =>
                      /\ e.after.pixelRatio > e.before.pixelRatio
                      /\ e.after.pixelRatio <= e.cap
    /\ \A lo, hi \in 1..Len(qualityLog) :
          (lo < hi /\ DropsThenRises(qualityLog, lo, hi)) =>
              /\ Transitions(qualityLog, lo, hi, TRUE) = 1
              /\ Transitions(qualityLog, lo, hi, FALSE) = 1

\* C19 witness: from Nominal at a pixel ratio of 2, a sample below the band on
\* which the ratio went down and shadows off, then a sample above the band on
\* which the ratio went up and shadows on again.
C19_Witness ==
    /\ Len(qualityLog) = 2
    /\ DropsThenRises(qualityLog, 1, 2)
    /\ qualityLog[1].before.pixelRatio = 2 * PixelRatioOne
    /\ qualityLog[1].after.pixelRatio < 2 * PixelRatioOne
    /\ qualityLog[2].after.pixelRatio > qualityLog[2].before.pixelRatio
    /\ renderer = qualityLog[2].after
    /\ Nominal(renderer)

\* C20: an evaluation made while the monitor holds no sample, or with adaptive
\* quality disabled, leaves the pixel ratio and the shadow flag as they were.
C20_MissingMetricsIgnored ==
    \A i \in 1..Len(qualityLog) :
        LET e == qualityLog[i] IN
        (~e.sampled \/ ~e.adaptiveQuality) =>
            /\ e.before.set => /\ e.after.pixelRatio = e.before.pixelRatio
                               /\ e.after.shadowMapEnabled = e.before.shadowMapEnabled
            /\ e.after = e.before

\* C20 witness: after a sample below the band reduced the quality from a
\* pixel ratio of 2, the monitor was reset and the next evaluation found no
\* sample; the renderer is still as the first evaluation left it.
C20_Witness ==
    /\ Len(qualityLog) = 2
    /\ BelowBand(qualityLog[1])
    /\ qualityLog[1].before.pixelRatio = 2 * PixelRatioOne
    /\ Reduced(qualityLog[1].after)
    /\ ~qualityLog[2].sampled
    /\ qualityLog[2].adaptiveQuality
    /\ renderer = qualityLog[1].after

\* ------------------------------------------------------------------------
\* Claims about level of detail (LodSpec, DecimationSpec)
\* ------------------------------------------------------------------------
\* the id under which the registry would track a LOD variant
LodResourceId(v) == <<"lod", v[1], v[2]>>

\* full quality: the pixel ratio at its cap and shadows on
FullQuality(r) ==
    r.pixelRatio = MaxPixelRatio(devicePixelRatio) /\ r.shadowMapEnabled

\* C21: every LOD variant the controller has created is tracked by the
\* registry, and a reset or dispose of the controller leaves no variant
\* undisposed, no LOD object, every mesh of the scene visible and the renderer
\* at full quality.
C21_LodVariantsTracked ==
    /\ [](\A v \in lodVariants : LodResourceId(v) \in DOMAIN resources)
    /\ [][(OptimizerReset \/ OptimizerDispose) =>
             /\ lodVariants' = {}
             /\ lodObjects' = {}
             /\ \A m \in SceneMeshes : visible'[m]
             /\ renderer.set /\ renderer'.set => FullQuality(renderer')
         ]_vars

\* ------------------------------------------------------------------------
\* Claims about the registry's timers (RegistrySpec)
\* ------------------------------------------------------------------------
\* C22: at most one cleanup interval is pending; it is pending exactly while
\* auto cleanup is enabled and it is the one the handle refers to, so that an
\* enable replaces the timer of an earlier enable and no tick runs after a
\* disable or a dispose.
C22_OneCleanupTimer ==
    /\ Cardinality(liveIntervals) <= 1
    /\ isAutoCleanupEnabled <=> liveIntervals # {}
    /\ isAutoCleanupEnabled <=> autoCleanupInterval.live
    /\ autoCleanupInterval.live =>
          liveIntervals = {[id |-> autoCleanupInterval.id,
                            options |-> autoCleanupInterval.options]}

\* C22 witness: auto cleanup was enabled while enabled, with other options
\* than a forced cleanup, and one timer is pending.
C22_Witness ==
    /\ last.op = "enableAutoCleanup"
    /\ last.replaced
    /\ Cardinality(liveIntervals) = 1
    /\ \E t \in liveIntervals : ~t.options.force

\* ------------------------------------------------------------------------
\* Further claims about the scheduler
\* ------------------------------------------------------------------------
\* a load waits on its poll timer with chunks queued, none active and none
\* in flight
Stalled ==
    /\ pc = "poll"
    /\ Len(loadingQueue) > 0
    /\ activeLoads = {}
    /\ delayed = {}

\* C23: the scheduler never holds a concurrency cap under 1, and no load
\* waits with chunks queued while nothing is active.
C23_MisconfigurationRejected ==
    /\ options.maxConcurrentChunks >= 1
    /\ ~Stalled

\* C29: a chunk that was activating when the loader was reset never enters
\* the completed set and has no callback run for it, and the activations in
\* flight, those from before a reset included, never exceed the cap.
C29_ResetCancelsActivations ==
    /\ [](Cardinality(delayed \cup inCallback) <= options.maxConcurrentChunks)
    /\ [][\A c \in delayed \ activeLoads :
             c \notin loadedChunks' /\ c \notin inCallback']_vars

\* ceil(a / b) for positive b
CeilDiv(a, b) == (a + b - 1) \div b

\* C28: simplifying count indices to a target of at least 1 keeps every N-th
\* index with N = ceil(count / target), and never more than target indices.
C28_DecimationStride ==
    (simplified.called /\ simplified.targetCount >= 1) =>
        /\ simplified.step = CeilDiv(simplified.count, simplified.targetCount)
        /\ simplified.kept <= simplified.targetCount

\* ------------------------------------------------------------------------
\* Claims about status updates (StatusSpec)
\* ------------------------------------------------------------------------
\* C26: at most one update is applying changes at a time; a call that arrives
\* while one is running neither calls the material service nor changes the
\* tracked map; the flag is clear when no update is running.
C26_UpdatesExclusive ==
    /\ Cardinality(statusRuns) <= 1
    /\ statusRuns = {} => ~updateInProgress
    /\ (statusLast.op = "updatePanelStatuses" /\ statusLast.running > 0) =>
          (~statusLast.materialCalled /\ ~statusLast.mapChanged)

\* ------------------------------------------------------------------------
\* Claims about error recovery (RecoverySpec)
\* ------------------------------------------------------------------------
\* the onFullRecovery calls of the last step
FullRecoveryCalls == {i \in DOMAIN recLast.calls : recLast.calls[i].cb = "onFullRecovery"}

\* C27: onFullRecovery is called only by a step that found the service
\* recovering with an error outstanding and leaves none; when it is called
\* hasErrors() is false, isRecovering is false, the attempts are back at 0 and
\* no interval is pending; recoveryAttempts never exceeds the maximum.
C27_FullRecovery ==
    /\ errorState.recoveryAttempts <= MaxRecoveryAttempts
    /\ Cardinality(FullRecoveryCalls) <= 1
    /\ \A i \in FullRecoveryCalls :
          LET call == recLast.calls[i] IN
          /\ recLast.before.isRecovering
          /\ HasErrors(recLast.before)
          /\ ~HasErrors(call.es)
          /\ ~HasErrors(errorState)
          /\ ~call.es.isRecovering
          /\ call.es.recoveryAttempts = 0
          /\ call.interval = NoTimerId
          /\ call.timers = {}

\* C27 witness: with both errors outstanding and the tenth attempt counted,
\* the last error was cleared and onFullRecovery called.
C27_Witness ==
    /\ FullRecoveryCalls # {}
    /\ recLast.before.recoveryAttempts = MaxRecoveryAttempts
    /\ recLast.op = "storageTestDone"
    /\ ~HasErrors(errorState)
    /\ recoveryTimers = {}

\* ------------------------------------------------------------------------
\* Claims about the polling service (PollSpec)
\* ------------------------------------------------------------------------
\* C24: while the service is stopped no request is sent: every step that
\* sends one (a timer, refresh(), the completion of a fetch, an event) leaves
\* the service active, so it is start() or a step after it.
C24_NoFetchAfterStop ==
    [][(inFlight' \ inFlight # {}) => (isActive /\ isActive') \/ pollLast'.op = "start"]_vars

\* C24 witness: a retry timer that stop() did not clear fires on the stopped
\* service and sends nothing.
C24_Witness ==
    /\ ~isActive
    /\ pollLast.op = "retryTimer"
    /\ pollLast.issued = 0
    /\ inFlight = {}

\* the retry that is pending is still among the timers
RetryPending(timers) ==
    /\ backoff.pending
    /\ [id |-> backoff.timer, kind |-> "retry", due |-> backoff.due] \in timers

\* onRetry of the n-th failure in a row gets n and the delay of the n-th retry
RetryAnnounced ==
    (pollLast.op = "fetchFailed" /\ isActive /\ failStreak <= MaxRetries) =>
        pollLast.retry = <<[attempt |-> failStreak,
                            delay |-> Min(PollInterval * Pow(BackoffMultiplier, failStreak - 1),
                                          MaxBackoffDelay)]>>

\* a timer of the service sends no request before the pending retry is due
NoFetchBeforeDelay ==
    (/\ backoff.pending
     /\ inFlight' \ inFlight # {}
     /\ pollLast'.op \in {"pollTimer", "retryTimer"}) => clock >= backoff.due

\* the poll timer leaves the pending retry among the timers
PollKeepsRetry ==
    (/\ RetryPending(pollTimers)
     /\ pollTimers' # pollTimers
     /\ pollLast'.op = "pollTimer") => RetryPending(pollTimers')

\* C25: the n-th failure in a row (n <= maxRetries) calls onRetry with n and
\* min(interval * multiplier^(n-1), maxBackoffDelay); with no event in between
\* no request is sent before that delay has passed, and the poll timer neither
\* runs ahead of the pending retry nor cancels it.
C25_ExponentialBackoff ==
    /\ []RetryAnnounced
    /\ [][NoFetchBeforeDelay]_vars
    /\ [][PollKeepsRetry]_vars

\* C30: the data given to onData were fetched for the project that is current
\* when they are delivered, and the service is active then.
C30_NoStaleResults ==
    pollLast.response.delivered =>
        /\ pollLast.response.project = pollLast.response.current
        /\ pollLast.response.active
====
